---- MODULE Spec2Model ----
(***************************************************************************)
(* State-machine model of nxslib: the CommHandler (comm.py), the           *)
(* NxscopeHandler (nxscope.py), the Parser payload codec (parse.py), the   *)
(* ThreadCommon worker runner (thread.py) and a device behind the          *)
(* transport (intf/dummy.py, proto/parserecv.py).                          *)
(*                                                                         *)
(* The transport carries whole frames: a frame is a record                 *)
(* [fid, data] with data a sequence of byte values.  Time is abstract: a   *)
(* blocking dequeue with a timeout may time out whenever its queue is      *)
(* empty.                                                                  *)
(***************************************************************************)
EXTENDS Integers, Sequences, FiniteSets, TLC

(***************************************************************************)
(* Bounds of the model.                                                    *)
(***************************************************************************)
\* number of channels of the device behind the transport
ChMax == 2
\* largest divider value a caller passes to ch_divider
MaxDiv == 2
\* public operations invoked after the first connect (subscriptions are
\* bounded by MaxSubs and not counted)
MaxOps == 2
\* control-path dequeues that time out in one behaviour
MaxTimeouts == 1
\* STREAM frames the device emits in one behaviour
MaxStream == 1
\* subscriber queues created in one behaviour
MaxSubs == 1
\* number of channels of the largest device of the handshake
ChMaxConnect == 3
\* entries the operation log keeps of the channel loop of the handshake
MaxLog == 12

(***************************************************************************)
(* Protocol constants.                                                     *)
(***************************************************************************)
STREAM == 1
CMNINFO == 2
CHINFO == 3
ACK == 4
START == 5
ENABLE == 6
DIV == 7
\* EParseIdSetFlags
SINGLE == 0
BULK == 1
ALL == 2
\* EDeviceFlags
DIVIDER_SUPPORT == 1
ACK_SUPPORT == 2
\* EParseStreamFlags
OVERFLOW == 1
\* EDeviceChannelType.UINT8
UINT8 == 2

Chans == 0 .. (ChMax - 1)

\* ---------------------------------------------------------------------
\* helpers on sequences
\* ---------------------------------------------------------------------
Range(s) == {s[i] : i \in 1 .. Len(s)}

RECURSIVE Repeat(_, _)
Repeat(x, n) == IF n <= 0 THEN <<>> ELSE <<x>> \o Repeat(x, n - 1)

\* s[a:b] of Python for a >= 0 (0-based, half-open, clipped; a negative b
\* counts from the end)
Slice(s, a, b) ==
    LET hi == IF b > Len(s) THEN Len(s)
              ELSE IF b >= 0 THEN b
              ELSE IF Len(s) + b > 0 THEN Len(s) + b ELSE 0
    IN  IF a >= hi THEN <<>> ELSE SubSeq(s, a + 1, hi)

BoolByte(b) == IF b THEN 1 ELSE 0

\* ---------------------------------------------------------------------
\* frames
\* ---------------------------------------------------------------------
\* SerialFrame.frame_create at the level of whole frames
frame_create(fid, data) == [fid |-> fid, data |-> data]

\* Parser._frame_set_data
frame_set_data(flags, chan) == <<flags, chan>>

\* Parser._frame_set_single
frame_set_single(id, data, chan) ==
    frame_create(id, frame_set_data(SINGLE, chan) \o data)

\* Parser._frame_set_bulk
frame_set_bulk(id, data) == frame_create(id, frame_set_data(BULK, 0) \o data)

\* Parser._frame_set_all
frame_set_all(id, data) == frame_create(id, frame_set_data(ALL, 0) \o data)

\* Parser.frame_start
frame_start(start) == frame_create(START, <<BoolByte(start)>>)

\* Parser.frame_cmninfo
frame_cmninfo == frame_create(CMNINFO, <<>>)

\* Parser.frame_chinfo
frame_chinfo(chan) == frame_create(CHINFO, <<chan>>)

\* A set request is either a tuple (chan, value) or the full list:
\* [single |-> TRUE, chan, val] or [single |-> FALSE, list].
ReqSingle(k, v) == [single |-> TRUE, chan |-> k, val |-> v, list |-> <<>>]
ReqList(l) == [single |-> FALSE, chan |-> 0, val |-> 0, list |-> l]

\* Parser.frame_enable: values are booleans
frame_enable(enable, chmax) ==
    IF enable.single
    THEN frame_set_single(ENABLE, <<BoolByte(enable.val)>>, enable.chan)
    ELSE IF Len(enable.list) = chmax /\ Cardinality(Range(enable.list)) <= 1
         THEN frame_set_all(ENABLE, <<BoolByte(enable.list[1])>>)
         ELSE frame_set_bulk(ENABLE,
                  [c \in 1 .. chmax |-> BoolByte(enable.list[c])])

\* Parser.frame_div: values are integers 0..255
frame_div(div, chmax) ==
    IF div.single
    THEN frame_set_single(DIV, <<div.val>>, div.chan)
    ELSE IF Len(div.list) = chmax /\ Cardinality(Range(div.list)) <= 1
         THEN frame_set_all(DIV, <<div.list[1]>>)
         ELSE frame_set_bulk(DIV, [c \in 1 .. chmax |-> div.list[c]])

\* Parser.frame_is_ack / frame_is_stream
frame_is_ack(frame) == frame.fid = ACK
frame_is_stream(frame) == frame.fid = STREAM

\* little-endian signed 32-bit value of four bytes (struct "i")
I32(d) ==
    d[1] + 256 * d[2] + 65536 * d[3]
    + 16777216 * (IF d[4] >= 128 THEN d[4] - 256 ELSE d[4])

\* the four bytes of a signed 32-bit value (struct "i")
I32Bytes(v) ==
    LET w == IF v < 0 THEN (v + 2147483647) + 1 ELSE v
    IN  <<w % 256, (w \div 256) % 256, (w \div 65536) % 256,
          (w \div 16777216) + (IF v < 0 THEN 128 ELSE 0)>>

\* ParseAck
ParseAck(state, retcode) == [state |-> state, retcode |-> retcode]

\* Parser.frame_ack_decode applied by CommHandler._get_ack to a frame taken
\* from the control queue: a frame that is not an ACK decodes to None and
\* _get_ack reports ParseAck(False, -2)
get_ack_decode(frame) ==
    IF frame.fid # ACK
    THEN ParseAck(FALSE, 0 - 2)
    ELSE IF I32(frame.data) = 0
         THEN ParseAck(TRUE, 0)
         ELSE ParseAck(FALSE, I32(frame.data))

\* Parser.frame_cmninfo_decode; ok = FALSE stands for None
frame_cmninfo_decode(frame) ==
    IF frame.fid # CMNINFO
    THEN [ok |-> FALSE, chmax |-> 0, flags |-> 0, rxpadding |-> 0]
    ELSE [ok |-> TRUE, chmax |-> frame.data[1], flags |-> frame.data[2],
          rxpadding |-> frame.data[3]]

\* bytes before the first NUL
RECURSIVE UntilNul(_)
UntilNul(s) ==
    IF s = <<>> \/ Head(s) = 0 THEN <<>> ELSE <<Head(s)>> \o UntilNul(Tail(s))

\* DeviceChannel as built by the host
DeviceChannel(chan, type, vdim, en, div, mlen, name) ==
    [chan |-> chan, type |-> type, vdim |-> vdim, en |-> en, div |-> div,
     mlen |-> mlen, name |-> name]

\* Parser.frame_chinfo_decode; ok = FALSE stands for None.  The channel id
\* of the record is the one of the request, the payload carries none.
frame_chinfo_decode(frame, chan) ==
    IF frame.fid # CHINFO
    THEN [ok |-> FALSE, ch |-> DeviceChannel(chan, 0, 0, FALSE, 0, 0, <<>>)]
    ELSE [ok |-> TRUE,
          ch |-> DeviceChannel(chan, frame.data[2], frame.data[3],
                               frame.data[1] # 0, frame.data[4],
                               frame.data[5],
                               UntilNul(Slice(frame.data, 5,
                                              Len(frame.data))))]

\* ---------------------------------------------------------------------
\* stream payload
\* ---------------------------------------------------------------------
\* dsfmt_get(dtype).slen for the channel types of the model
dsfmt_slen(dtype) == IF dtype = UINT8 THEN 1 ELSE 0

\* Device.channel_get; ok = FALSE stands for None (IndexError)
channel_get(d, chid) ==
    IF chid + 1 <= Len(d.channels)
    THEN [ok |-> TRUE, ch |-> d.channels[chid + 1]]
    ELSE [ok |-> FALSE, ch |-> DeviceChannel(0, 0, 0, FALSE, 0, 0, <<>>)]

\* the sample loop of Parser.frame_stream_decode from 0-based offset i:
\* [err, samples]; err stands for the exception raised by a failed assert
\* or by struct.unpack on a short slice
RECURSIVE stream_samples(_, _, _)
stream_samples(data, i, d) ==
    IF i >= Len(data)
    THEN [err |-> FALSE, samples |-> <<>>]
    ELSE LET cg == channel_get(d, data[i + 1])
             chan == cg.ch
             doff == dsfmt_slen(chan.type % 32) * chan.vdim
             vals == Slice(data, i + 1, i + 1 + doff)
             mdat == Slice(data, i + 1 + doff, i + 1 + doff + chan.mlen)
         IN  IF ~cg.ok \/ Len(vals) < doff \/ Len(mdat) < chan.mlen
             THEN [err |-> TRUE, samples |-> <<>>]
             ELSE LET rest == stream_samples(data, i + 1 + doff + chan.mlen, d)
                  IN  [err |-> rest.err,
                       samples |-> IF rest.err THEN <<>>
                                   ELSE <<[chan |-> chan.chan, data |-> vals,
                                           meta |-> mdat]>> \o rest.samples]

\* Parser.frame_stream_decode; ok = FALSE stands for None
frame_stream_decode(frame, d) ==
    IF frame.fid # STREAM \/ frame.data = <<>>
    THEN [ok |-> FALSE, err |-> FALSE, flags |-> 0, samples |-> <<>>]
    ELSE LET r == stream_samples(frame.data, 1, d)
         IN  [ok |-> ~r.err, err |-> r.err, flags |-> frame.data[1],
              samples |-> r.samples]

\* CommHandler.flags_is_overflow
flags_is_overflow(flag) == (flag % 2) = 1

\* DNxscopeStream
DNxscopeStream(val, meta) == [data |-> val, meta |-> meta]

\* ---------------------------------------------------------------------
\* device record of the host
\* ---------------------------------------------------------------------
NoDev == [set |-> FALSE, chmax |-> 0, flags |-> 0, rxpadding |-> 0,
          channels |-> <<>>]

\* Device(chmax, flags, rxpadding, channels)
Device(chmax, flags, rxpadding, channels) ==
    [set |-> TRUE, chmax |-> chmax, flags |-> flags, rxpadding |-> rxpadding,
     channels |-> channels]

\* DDeviceData.div_supported / ack_supported
div_supported(d) == (d.flags % 2) = 1
ack_supported(d) == ((d.flags \div 2) % 2) = 1

\* Device.channels_en / channels_div
channels_en(d) == [i \in 1 .. Len(d.channels) |-> d.channels[i].en]
channels_div(d) == [i \in 1 .. Len(d.channels) |-> d.channels[i].div]

\* an update that leaves the device record as it is
en_channels_keep(d, en) == d

\* Device.en_channels_update / div_channels_update
en_channels_update(d, en) ==
    [d EXCEPT !.channels =
        [i \in 1 .. Len(d.channels) |-> [d.channels[i] EXCEPT !.en = en[i]]]]
div_channels_update(d, div) ==
    [d EXCEPT !.channels =
        [i \in 1 .. Len(d.channels) |-> [d.channels[i] EXCEPT !.div = div[i]]]]

\* ---------------------------------------------------------------------
\* the device behind the transport
\* ---------------------------------------------------------------------
\* immutable data of device channel i: UINT8 samples, channels differ in
\* vdim, mlen and name
DevChannel(i) == [type |-> UINT8, vdim |-> 1 + (i % 2), mlen |-> i % 2,
                  name |-> <<97 + i>>]

\* device flags and rxpadding values a device may have
DevFlags == {0, DIVIDER_SUPPORT, ACK_SUPPORT, DIVIDER_SUPPORT + ACK_SUPPORT}
DevRxPaddings == {0}
\* retcodes a device answers a request with
AckCodes == {0, 0 - 1}

\* ParseRecv.frame_cmninfo_encode
frame_cmninfo_encode(chmax, flags, rxpadding) ==
    frame_create(CMNINFO, <<chmax, flags, rxpadding>>)

\* ParseRecv.frame_chinfo_encode
frame_chinfo_encode(i, en, div) ==
    frame_create(CHINFO,
        <<BoolByte(en), DevChannel(i).type % 32, DevChannel(i).vdim, div,
          DevChannel(i).mlen>> \o DevChannel(i).name)

\* ParseRecv.frame_ack_encode
frame_ack_encode(code) == frame_create(ACK, I32Bytes(code))

\* ParseRecv.frame_enable_decode: the new enable vector of the device
frame_enable_decode(data, cur) ==
    IF data[1] = BULK
    THEN [i \in 1 .. Len(cur) |-> data[2 + i] # 0]
    ELSE IF data[1] = SINGLE
         THEN [cur EXCEPT ![data[2] + 1] = (data[3] # 0)]
         ELSE [i \in 1 .. Len(cur) |-> data[3] # 0]

\* ParseRecv.frame_div_decode: the new divider vector of the device
\* the signed value of one byte (struct "b")
I8(b) == IF b >= 128 THEN b - 256 ELSE b

frame_div_decode(data, cur) ==
    IF data[1] = BULK
    THEN [i \in 1 .. Len(cur) |-> I8(data[2 + i])]
    ELSE IF data[1] = SINGLE
         THEN [cur EXCEPT ![data[2] + 1] = I8(data[3])]
         ELSE [i \in 1 .. Len(cur) |-> I8(data[3])]

\* bytes of one sample of channel c whose data and meta bytes all hold v
DevSample(c, v) ==
    <<c>> \o Repeat(v, DevChannel(c).vdim) \o Repeat(v, DevChannel(c).mlen)

\* payload of a STREAM frame: flags, then one sample per entry of cs, the
\* p-th sample holding the value p
RECURSIVE DevSamples(_, _)
DevSamples(cs, p) ==
    IF cs = <<>> THEN <<>>
    ELSE DevSample(Head(cs), p) \o DevSamples(Tail(cs), p + 1)

\* ParseRecv.frame_stream_encode with the flags byte of the device; the
\* samples hold the values p, p + 1, ...
frame_stream_encode(flags, cs, p) ==
    frame_create(STREAM, <<flags>> \o DevSamples(cs, p))

\* ---------------------------------------------------------------------
\* state
\* ---------------------------------------------------------------------
VARIABLES
    \* CommHandler
    started,        \* _started
    dev,            \* _dev (NoDev stands for None)
    q,              \* _q, the control queue
    q_stream,       \* _q_stream, the stream queue
    en_now, en_new, div_now, div_new,   \* _channels
    channels_lock,  \* holder of _channels_lock across a blocking dequeue
    recv_thrd,      \* _thrd of the receive worker: "none", "run", "dead"
    recv_stop,      \* its stop flag
    prev_read,      \* _prev_read, the bytes carried over between reads
    rd_pc,          \* position of the receive worker inside _read_frame
    rd_bytes,       \* local _bytes of _read_hdr / _read_frame
    rd_tick,        \* parity of the number of reads of the transport
    wire,           \* chunks of bytes the transport is still to deliver
    \* NxscopeHandler
    connected,      \* _connected
    stream_started, \* _stream_started
    sub_q,          \* _sub_q: per channel the list of subscriber queue ids
    subq,           \* contents of the subscriber queues, by queue id
    ovf_cntr,       \* _ovf_cntr
    disp_thrd,      \* _thrd of the dispatcher: "none", "run", "dead"
    disp_stop,      \* its stop flag
    disp_pc,        \* position of the dispatcher inside _stream_thread
    sdata,          \* samples of the frame being dispatched
    didx,           \* index of the next sample to examine
    samples,        \* per channel the samples collected so far
    \* transport and device
    write_padding,  \* CommInterfaceCommon._write_padding
    intf_started,   \* the transport (and the device behind it) runs
    tx,             \* frames written by the host, not yet seen by the device
    rx,             \* frames sent by the device, not yet read by the host
    d_en, d_div,    \* channel state of the device
    d_stream,       \* the device is streaming
    d_flags,        \* flags of the device
    d_rxpadding,    \* rxpadding of the device
    n_stream,       \* STREAM frames emitted so far
    \* the caller thread
    pc,             \* position of the caller
    stack,          \* return positions of the calls in progress
    timeout,        \* local timeout of _start
    cmn,            \* local frame of _devinfo_get
    chans,          \* local channels of _devinfo_get
    chi,            \* local i of _devinfo_get
    cntr,           \* local cntr of _drop_all_frames
    ret,            \* last ParseAck returned by _get_ack
    op,             \* public operation in progress or last completed
    nops,           \* number of public operations invoked
    wlog,           \* what the operation in progress has done so far
    n_to,           \* dequeues that timed out with a reply in flight
    exc,            \* exception raised by the last operation, "" if none
    \* a ThreadCommon of its own, built with an init and a final hook
    t_thrd,         \* _thrd: 0 for None, else the number of its worker
    t_stop,         \* _stop_flag
    t_workers,      \* position of every worker created so far
    t_log,          \* hooks and targets the workers have run, in order
    t_pc,           \* position of the caller of thread_start / thread_stop
    t_calls,        \* the calls made so far, in order
    \* a second caller thread
    snaps,          \* the values (en_new, div_new) had before and after
                    \* each of its channel operations
    \* NxscopeHandler
    queue_lock,     \* holder of _queue_lock: "free", "caller", "disp"
    \* SerialFrame / ParseRecv
    dec_log,        \* the calls of frame_decode and recv_handle so far
    \* a second caller thread
    o_pc,           \* its position in NxscopeHandler.stream_start
    o_log           \* what it has written and started

commVars == <<started, dev, q, q_stream>>
chVars == <<en_now, en_new, div_now, div_new, channels_lock>>
readVars == <<prev_read, rd_pc, rd_bytes, rd_tick, wire>>
recvVars == <<recv_thrd, recv_stop, readVars>>
nxsVars == <<connected, stream_started, sub_q, subq, ovf_cntr>>
dispVars == <<disp_thrd, disp_stop, disp_pc, sdata, didx, samples>>
wireVars == <<write_padding, intf_started, tx, rx>>
runVars == <<t_thrd, t_stop, t_workers, t_log, t_pc, t_calls>>
\* what the handler, its workers and the device never touch
otherVars == <<o_pc, o_log>>
\* what only the decoders and the second caller thread touch
restVars == <<dec_log, otherVars>>
extVars == <<runVars, snaps, queue_lock, dec_log, otherVars>>
deviceVars == <<d_en, d_div, d_stream, d_flags, d_rxpadding, n_stream>>
devVars == <<deviceVars, extVars>>
locVars == <<timeout, cmn, chans, chi, cntr, ret>>
callVars == <<pc, stack, op, nops, wlog, n_to, exc>>

vars == <<commVars, chVars, recvVars, nxsVars, dispVars, wireVars, devVars,
          locVars, callVars>>

NoCmn == [ok |-> FALSE, chmax |-> 0, flags |-> 0, rxpadding |-> 0]

\* the byte reader of the receive worker before its first read, on a
\* transport that carries whole frames
InitReader ==
    /\ prev_read = <<>>
    /\ rd_pc = "loop"
    /\ rd_bytes = <<>>
    /\ rd_tick = 0
    /\ wire = <<>>

\* the host after NxscopeHandler(), CommHandler(intf, parse) and
\* intf_connect
InitHost ==
    /\ InitReader
    /\ started = FALSE
    /\ dev = NoDev
    /\ q = <<>>
    /\ q_stream = <<>>
    /\ en_now = <<>> /\ en_new = <<>> /\ div_now = <<>> /\ div_new = <<>>
    /\ channels_lock = "free"
    /\ recv_thrd = "none"
    /\ recv_stop = FALSE
    /\ connected = FALSE
    /\ stream_started = FALSE
    /\ sub_q = <<>>
    /\ subq = <<>>
    /\ ovf_cntr = 0
    /\ disp_thrd = "none"
    /\ disp_stop = FALSE
    /\ disp_pc = "get"
    /\ sdata = <<>>
    /\ didx = 1
    /\ samples = <<>>
    /\ write_padding = 0
    /\ intf_started = FALSE
    /\ tx = <<>>
    /\ rx = <<>>
    /\ pc = "idle"
    /\ stack = <<>>
    /\ timeout = 0
    /\ cmn = NoCmn
    /\ chans = <<>>
    /\ chi = 0
    /\ cntr = 0
    /\ ret = ParseAck(TRUE, 0)
    /\ op = [name |-> "none", writenow |-> FALSE]
    /\ nops = 0
    /\ wlog = <<>>
    /\ n_to = 0
    /\ exc = ""

\* ThreadCommon.__init__
InitRunner ==
    /\ t_thrd = 0
    /\ t_stop = FALSE
    /\ t_workers = <<>>
    /\ t_log = <<>>
    /\ t_pc = "idle"
    /\ t_calls = <<>>

InitExt ==
    /\ InitRunner
    /\ snaps = {}
    /\ queue_lock = "free"
    /\ dec_log = <<>>
    /\ o_pc = "idle"
    /\ o_log = <<>>

\* a device of n channels in any state it can be in when the host shows up
InitDev(n) ==
    /\ d_en \in [1 .. n -> BOOLEAN]
    /\ d_div = [i \in 1 .. n |-> 0]
    /\ d_stream \in BOOLEAN
    /\ d_flags \in DevFlags
    /\ d_rxpadding \in DevRxPaddings
    /\ InitExt
    /\ n_stream = 0

Init == InitHost /\ InitDev(ChMax)

\* ---------------------------------------------------------------------
\* the caller thread: helpers
\* ---------------------------------------------------------------------
\* entry of the operation log
Ev(ev, frame) == [ev |-> ev, frame |-> frame]
NoFrame == frame_create(0, <<>>)
Wr(frame) == Ev("write", frame)
\* the result of a call of CommHandler._get_ack
AckEv(r) == Ev(IF r.state THEN "ack_ok" ELSE "ack_err", NoFrame)

\* a public operation may be invoked
CanCall == pc = "idle" /\ nops < MaxOps + 1

\* a dequeue with a timeout on an empty queue may time out: at most
\* MaxTimeouts times while a reply may still arrive, and always when
\* nothing is in flight
NothingInFlight == tx = <<>> \/ ~intf_started
MayTimeout == n_to < MaxTimeouts \/ (NothingInFlight /\ rx = <<>>)
CountTimeout == IF NothingInFlight /\ rx = <<>> THEN n_to ELSE n_to + 1

\* CommHandler._get_ack answers without a dequeue
AckImmediate == ~dev.set \/ ~ack_supported(dev)

\* indexes (1-based) at which new and now differ
DiffIdx(new, now) == {i \in 1 .. Len(now) : new[i] # now[i]}
MaxOf(S) == CHOOSE x \in S : \A y \in S : y <= x

\* the request built without the single-index case: always the full list
SetRequestList(new, now) == ReqList(new)

\* the request CommHandler._nxslib_channels_enable / _div builds from the
\* snapshots: (k, new[k]) if they differ at exactly one index, else new
SetRequest(new, now) ==
    IF Cardinality(DiffIdx(new, now)) = 1
    THEN ReqSingle(MaxOf(DiffIdx(new, now)) - 1,
                   new[MaxOf(DiffIdx(new, now))])
    ELSE ReqList(new)

\* channels_write without the test of DIVIDER_SUPPORT
CwEntryDiv == "cw_div"

\* first position of CommHandler.channels_write
CwEntry == IF div_supported(dev) THEN "cw_div" ELSE "cw_en"

\* bookkeeping of the invocation of a public operation (but for
\* stream_sub and stream_unsub)
Invoke(name, wn) ==
    /\ CanCall
    /\ op' = [name |-> name, writenow |-> wn]
    /\ nops' = nops + 1
    /\ exc' = ""

\* ---------------------------------------------------------------------
\* connect
\* ---------------------------------------------------------------------
\* NxscopeHandler.connect, CommHandler.connect and CommHandler._start up
\* to the first dequeue of _drop_all_frames.  _get_ack of the STOP request
\* answers at once: the device record is None while _started is false.
connect ==
    /\ Invoke("connect", FALSE)
    /\ IF connected \/ started
       THEN /\ pc' = "idle"
            /\ connected' = TRUE
            /\ sub_q' = IF connected THEN sub_q
                        ELSE [c \in 1 .. dev.chmax |-> <<>>]
            /\ wlog' = <<>>
            /\ UNCHANGED <<intf_started, recv_thrd, recv_stop, tx, ret, cntr,
                           stack, timeout>>
       ELSE /\ intf_started' = TRUE
            /\ recv_thrd' = IF recv_thrd = "none" THEN "run" ELSE recv_thrd
            /\ recv_stop' = IF recv_thrd = "none" THEN FALSE ELSE recv_stop
            /\ tx' = Append(tx, frame_start(FALSE))
            /\ wlog' = <<Ev("intf_start", NoFrame), Ev("recv_start", NoFrame),
                         Wr(frame_start(FALSE)), AckEv(ParseAck(TRUE, 0))>>
            /\ ret' = ParseAck(TRUE, 0)
            /\ cntr' = 4
            /\ timeout' = 5
            /\ pc' = "drop"
            /\ stack' = <<"cmn">>
            /\ UNCHANGED <<connected, sub_q>>
    /\ UNCHANGED <<commVars, chVars, stream_started, subq, ovf_cntr, dispVars,
                   write_padding, rx, devVars, cmn, chans, chi, n_to, readVars>>

\* _drop_all_frames that drains the control queue only
drop_all_frames_ctl ==
    /\ pc = "drop"
    /\ q' = IF q # <<>> THEN Tail(q) ELSE q
    /\ cntr' = IF q # <<>> THEN cntr ELSE cntr - 1
    /\ pc' = IF q = <<>> /\ cntr = 1 THEN Head(stack) ELSE "drop"
    /\ stack' = IF q = <<>> /\ cntr = 1 THEN Tail(stack) ELSE stack
    /\ UNCHANGED <<started, dev, q_stream, chVars, recvVars, nxsVars,
                   dispVars, wireVars, devVars, timeout, cmn, chans, chi, ret,
                   op, nops, wlog, n_to, exc>>

\* CommHandler._drop_all_frames: one dequeue with the 0.1 s timeout, first
\* on the control queue, then on the stream queue (intf.drop_all of the
\* transport does nothing)
drop_all_frames ==
    /\ pc \in {"drop", "drop_s"}
    /\ IF pc = "drop"
       THEN /\ q' = IF q # <<>> THEN Tail(q) ELSE q
            /\ cntr' = IF q # <<>> THEN cntr
                       ELSE IF cntr = 1 THEN 4 ELSE cntr - 1
            /\ pc' = IF q = <<>> /\ cntr = 1 THEN "drop_s" ELSE "drop"
            /\ UNCHANGED <<q_stream, stack>>
       ELSE /\ q_stream' = IF q_stream # <<>> THEN Tail(q_stream) ELSE q_stream
            /\ cntr' = IF q_stream # <<>> THEN cntr ELSE cntr - 1
            /\ pc' = IF q_stream = <<>> /\ cntr = 1 THEN Head(stack)
                     ELSE "drop_s"
            /\ stack' = IF q_stream = <<>> /\ cntr = 1 THEN Tail(stack)
                        ELSE stack
            /\ UNCHANGED q
    /\ UNCHANGED <<started, dev, chVars, recvVars, nxsVars, dispVars, wireVars,
                   devVars, timeout, cmn, chans, chi, ret, op, nops, wlog,
                   n_to, exc>>

\* the loop of CommHandler._start and the head of _devinfo_get up to the
\* dequeue of _nxslib_cmninfo
start_cmninfo ==
    /\ pc = "cmn"
    /\ IF timeout < 0
       THEN /\ exc' = "TimeoutError"
            /\ pc' = "idle"
            /\ stack' = <<>>
            /\ UNCHANGED <<tx, wlog>>
       ELSE /\ tx' = Append(tx, frame_cmninfo)
            /\ wlog' = Append(wlog, Wr(frame_cmninfo))
            /\ pc' = "cmn_wait"
            /\ UNCHANGED <<exc, stack>>
    /\ UNCHANGED <<commVars, chVars, recvVars, nxsVars, dispVars,
                   write_padding, intf_started, rx, devVars, locVars, op,
                   nops, n_to>>

\* CommHandler._nxslib_cmninfo from its dequeue on, and _devinfo_get up to
\* the first dequeue of _drop_all
nxslib_cmninfo ==
    /\ pc = "cmn_wait"
    /\ \/ /\ q # <<>>
          /\ q' = Tail(q)
          /\ LET frame == frame_cmninfo_decode(Head(q))
                 pad == frame.rxpadding > 0 /\ write_padding # frame.rxpadding
                 nul == frame_create(0, Repeat(0, frame.rxpadding))
             IN  IF frame.ok
                 THEN /\ cmn' = frame
                      /\ write_padding' = IF pad THEN frame.rxpadding
                                          ELSE write_padding
                      /\ tx' = IF pad THEN Append(tx, nul) ELSE tx
                      /\ wlog' = IF pad THEN Append(wlog, Ev("pad", nul))
                                 ELSE wlog
                      /\ chans' = <<>>
                      /\ chi' = 0
                      /\ cntr' = 4
                      /\ pc' = "drop"
                      /\ stack' = <<"chi">> \o stack
                      /\ UNCHANGED timeout
                 ELSE /\ timeout' = timeout - 1
                      /\ pc' = "cmn"
                      /\ UNCHANGED <<cmn, write_padding, tx, wlog, chans, chi,
                                     cntr, stack>>
          /\ UNCHANGED n_to
       \/ /\ q = <<>>
          /\ MayTimeout
          /\ n_to' = CountTimeout
          /\ timeout' = timeout - 1
          /\ pc' = "cmn"
          /\ UNCHANGED <<q, cmn, write_padding, tx, wlog, chans, chi, cntr,
                         stack>>
    /\ UNCHANGED <<started, dev, q_stream, chVars, recvVars, nxsVars, dispVars,
                   intf_started, rx, devVars, ret, op, nops, exc>>

\* the channel loop of CommHandler._devinfo_get up to the dequeue of
\* _nxslib_chinfo; after the last channel the device record is built,
\* _channels_init runs and NxscopeHandler.connect finishes
devinfo_get ==
    /\ pc = "chi"
    /\ IF chi < cmn.chmax
       THEN /\ tx' = Append(tx, frame_chinfo(chi))
            /\ wlog' = IF Len(wlog) < MaxLog
                       THEN Append(wlog, Wr(frame_chinfo(chi))) ELSE wlog
            /\ pc' = "chi_wait"
            /\ UNCHANGED <<dev, started, en_now, en_new, div_now, div_new,
                           sub_q, connected, timeout>>
       ELSE /\ dev' = Device(cmn.chmax, cmn.flags, cmn.rxpadding, chans)
            /\ timeout' = timeout - 1
            /\ en_now' = channels_en(dev')
            /\ en_new' = channels_en(dev')
            /\ div_now' = channels_div(dev')
            /\ div_new' = channels_div(dev')
            /\ started' = TRUE
            /\ sub_q' = [c \in 1 .. dev'.chmax |-> <<>>]
            /\ connected' = TRUE
            /\ pc' = "idle"
            /\ UNCHANGED <<tx, wlog>>
    /\ UNCHANGED <<q, q_stream, channels_lock, recvVars, stream_started, subq,
                   ovf_cntr, dispVars, write_padding, intf_started, rx,
                   devVars, cmn, chans, chi, cntr, ret, stack, op, nops, n_to,
                   exc>>

\* CommHandler._nxslib_chinfo from its dequeue on
nxslib_chinfo ==
    /\ pc = "chi_wait"
    /\ \/ /\ q # <<>>
          /\ q' = Tail(q)
          /\ LET chan == frame_chinfo_decode(Head(q), chi)
             IN  /\ chans' = IF chan.ok THEN Append(chans, chan.ch) ELSE chans
                 /\ chi' = IF chan.ok THEN chi + 1 ELSE chi
          /\ UNCHANGED n_to
       \/ /\ q = <<>>
          /\ MayTimeout
          /\ n_to' = CountTimeout
          /\ UNCHANGED <<q, chans, chi>>
    /\ pc' = "chi"
    /\ UNCHANGED <<started, dev, q_stream, chVars, recvVars, nxsVars, dispVars,
                   wireVars, devVars, timeout, cmn, cntr, ret, stack, op, nops,
                   wlog, exc>>

\* ---------------------------------------------------------------------
\* channel configuration
\* ---------------------------------------------------------------------
\* a buffered channel operation that writes the enable vector through to
\* the committed snapshot
ChOpFrameWriteThrough ==
    /\ en_now' = en_new'
    /\ UNCHANGED <<commVars, div_now, channels_lock, recvVars, nxsVars,
                   dispVars, wireVars, devVars, locVars, n_to>>

\* what every buffered channel operation leaves alone
ChOpFrame ==
    UNCHANGED <<commVars, en_now, div_now, channels_lock, recvVars, nxsVars,
                dispVars, wireVars, devVars, locVars, n_to>>

\* the tail of NxscopeHandler.ch_enable and its siblings: with writenow
\* the caller goes on into channels_write
ChOpTail(wn) ==
    /\ wlog' = <<>>
    /\ pc' = IF wn THEN CwEntry ELSE "idle"
    /\ stack' = IF wn THEN <<"idle">> ELSE <<>>

\* the vector v with value x at the channels of cs
SetAt(v, cs, x) == [i \in 1 .. Len(v) |-> IF (i - 1) \in cs THEN x ELSE v[i]]

\* NxscopeHandler.ch_enable / CommHandler.ch_enable
ch_enable(cs, wn) ==
    /\ Invoke("ch_enable", wn)
    /\ dev.set
    /\ en_new' = SetAt(en_new, cs, TRUE)
    /\ ChOpTail(wn)
    /\ UNCHANGED div_new
    /\ ChOpFrame

\* NxscopeHandler.ch_disable / CommHandler.ch_disable
ch_disable(cs, wn) ==
    /\ Invoke("ch_disable", wn)
    /\ dev.set
    /\ en_new' = SetAt(en_new, cs, FALSE)
    /\ ChOpTail(wn)
    /\ UNCHANGED div_new
    /\ ChOpFrame

\* NxscopeHandler.ch_divider / CommHandler.ch_divider with 0 <= d <= 255
ch_divider(cs, d, wn) ==
    /\ Invoke("ch_divider", wn)
    /\ dev.set
    /\ div_new' = SetAt(div_new, cs, d)
    /\ ChOpTail(wn)
    /\ UNCHANGED en_new
    /\ ChOpFrame

\* Python's v[id] = x for each id of the list ids in turn: an id in
\* [-len(v), len(v)) names an entry, a negative one counted from the end;
\* any other id raises IndexError, which ends the loop and keeps the
\* entries set so far
RECURSIVE Assign(_, _, _)
Assign(v, ids, x) ==
    IF ids = <<>> THEN [vec |-> v, err |-> FALSE]
    ELSE LET k == IF Head(ids) < 0 THEN Head(ids) + Len(v) + 1
                  ELSE Head(ids) + 1
         IN  IF k < 1 \/ k > Len(v)
             THEN [vec |-> v, err |-> TRUE]
             ELSE Assign([v EXCEPT ![k] = x], Tail(ids), x)

\* the call of a channel operation with a list of ids (an int is the
\* list of that int) that raised, or did not raise, the exception e:
\* channels_write follows only when nothing was raised
ChOpCall(name, wn, e) ==
    /\ CanCall
    /\ dev.set
    /\ op' = [name |-> name, writenow |-> wn]
    /\ nops' = nops + 1
    /\ exc' = e
    /\ wlog' = <<>>
    /\ pc' = IF wn /\ e = "" THEN CwEntry ELSE "idle"
    /\ stack' = IF wn /\ e = "" THEN <<"idle">> ELSE <<>>
    /\ ChOpFrame

\* NxscopeHandler.ch_enable / CommHandler.ch_enable with any list of ids
ch_enable_ids(ids, wn) ==
    /\ en_new' = Assign(en_new, ids, TRUE).vec
    /\ ChOpCall("ch_enable", wn,
                IF Assign(en_new, ids, TRUE).err THEN "IndexError" ELSE "")
    /\ UNCHANGED div_new

\* NxscopeHandler.ch_disable / CommHandler.ch_disable with any list of ids
ch_disable_ids(ids, wn) ==
    /\ en_new' = Assign(en_new, ids, FALSE).vec
    /\ ChOpCall("ch_disable", wn,
                IF Assign(en_new, ids, FALSE).err THEN "IndexError" ELSE "")
    /\ UNCHANGED div_new

\* ch_divider without the test of the divider
ch_divider_unchecked(ids, d, wn) ==
    /\ div_new' = Assign(div_new, ids, d).vec
    /\ ChOpCall("ch_divider", wn,
                IF Assign(div_new, ids, d).err THEN "IndexError" ELSE "")
    /\ UNCHANGED en_new

\* NxscopeHandler.ch_divider / CommHandler.ch_divider with any list of ids
\* and any divider
ch_divider_ids(ids, d, wn) ==
    IF d < 0 \/ d > 255
    THEN /\ ChOpCall("ch_divider", wn, "ValueError")
         /\ UNCHANGED <<en_new, div_new>>
    ELSE /\ div_new' = Assign(div_new, ids, d).vec
         /\ ChOpCall("ch_divider", wn,
                     IF Assign(div_new, ids, d).err THEN "IndexError" ELSE "")
         /\ UNCHANGED en_new

\* CommHandler.ch_enable_all
ch_enable_all ==
    /\ Invoke("ch_enable_all", FALSE)
    /\ dev.set
    /\ en_new' = SetAt(en_new, 0 .. (dev.chmax - 1), TRUE)
    /\ ChOpTail(FALSE)
    /\ UNCHANGED div_new
    /\ ChOpFrame

\* CommHandler.ch_disable_all
ch_disable_all ==
    /\ Invoke("ch_disable_all", FALSE)
    /\ dev.set
    /\ en_new' = SetAt(en_new, 0 .. (dev.chmax - 1), FALSE)
    /\ ChOpTail(FALSE)
    /\ UNCHANGED div_new
    /\ ChOpFrame

\* NxscopeHandler.channels_default_cfg / CommHandler.channels_default_cfg
\* with _ch_divider_default
channels_default_cfg(wn) ==
    /\ Invoke("channels_default_cfg", wn)
    /\ dev.set
    /\ en_new' = SetAt(en_new, 0 .. (dev.chmax - 1), FALSE)
    /\ div_new' = [i \in 1 .. Len(div_new) |-> 0]
    /\ ChOpTail(wn)
    /\ ChOpFrame

\* NxscopeHandler.channels_write / CommHandler.channels_write
channels_write ==
    /\ Invoke("channels_write", FALSE)
    /\ dev.set
    /\ ChOpTail(TRUE)
    /\ UNCHANGED <<en_new, div_new>>
    /\ ChOpFrame

\* CommHandler._nxslib_channels_div with _channel_div, up to the dequeue
\* of _get_ack; without ACK support the commit follows at once
nxslib_channels_div ==
    /\ pc = "cw_div"
    /\ channels_lock = "free"
    /\ LET fwrite == frame_div(SetRequest(div_new, div_now), dev.chmax)
       IN  /\ tx' = Append(tx, fwrite)
           /\ wlog' = IF AckImmediate
                      THEN wlog \o <<Wr(fwrite), AckEv(ParseAck(TRUE, 0))>>
                      ELSE Append(wlog, Wr(fwrite))
    /\ IF AckImmediate
       THEN /\ ret' = ParseAck(TRUE, 0)
            /\ div_now' = div_new
            /\ dev' = div_channels_update(dev, div_new)
            /\ pc' = "cw_en"
            /\ UNCHANGED channels_lock
       ELSE /\ channels_lock' = "caller"
            /\ pc' = "cw_div_wait"
            /\ UNCHANGED <<ret, div_now, dev>>
    /\ UNCHANGED <<started, q, q_stream, en_now, en_new, div_new, recvVars,
                   nxsVars, dispVars, write_padding, intf_started, rx, devVars,
                   timeout, cmn, chans, chi, cntr, stack, op, nops, n_to, exc>>

\* the ParseAck that _get_ack returns for the step taken at its dequeue:
\* the decoded head of the control queue, or (False, -1) on a timeout
AckOf(frame) == get_ack_decode(frame)
AckTimeout == ParseAck(FALSE, 0 - 1)

\* the dequeue of CommHandler._get_ack: a frame is taken or it times out
GetAck ==
    \/ /\ q # <<>>
       /\ q' = Tail(q)
       /\ ret' = AckOf(Head(q))
       /\ UNCHANGED n_to
    \/ /\ q = <<>>
       /\ MayTimeout
       /\ n_to' = CountTimeout
       /\ ret' = AckTimeout
       /\ UNCHANGED q

\* CommHandler._nxslib_channels_div from the dequeue of _get_ack on
nxslib_channels_div_ack ==
    /\ pc = "cw_div_wait"
    /\ GetAck
    /\ IF ret'.state
       THEN /\ div_now' = div_new
            /\ dev' = div_channels_update(dev, div_new)
       ELSE UNCHANGED <<div_now, dev>>
    /\ channels_lock' = "free"
    /\ wlog' = Append(wlog, AckEv(ret'))
    /\ pc' = "cw_en"
    /\ UNCHANGED <<started, q_stream, en_now, en_new, div_new, recvVars,
                   nxsVars, dispVars, wireVars, devVars, timeout, cmn, chans,
                   chi, cntr, stack, op, nops, exc>>

\* CommHandler._nxslib_channels_enable with _channel_enable, up to the
\* dequeue of _get_ack; without ACK support the commit follows at once
nxslib_channels_enable ==
    /\ pc = "cw_en"
    /\ channels_lock = "free"
    /\ LET fwrite == frame_enable(SetRequest(en_new, en_now), dev.chmax)
       IN  /\ tx' = Append(tx, fwrite)
           /\ wlog' = IF AckImmediate
                      THEN wlog \o <<Wr(fwrite), AckEv(ParseAck(TRUE, 0))>>
                      ELSE Append(wlog, Wr(fwrite))
    /\ IF AckImmediate
       THEN /\ ret' = ParseAck(TRUE, 0)
            /\ en_now' = en_new
            /\ dev' = en_channels_update(dev, en_new)
            /\ pc' = Head(stack)
            /\ stack' = Tail(stack)
            /\ UNCHANGED channels_lock
       ELSE /\ channels_lock' = "caller"
            /\ pc' = "cw_en_wait"
            /\ UNCHANGED <<ret, en_now, dev, stack>>
    /\ UNCHANGED <<started, q, q_stream, en_new, div_now, div_new, recvVars,
                   nxsVars, dispVars, write_padding, intf_started, rx, devVars,
                   timeout, cmn, chans, chi, cntr, op, nops, n_to, exc>>

\* CommHandler._nxslib_channels_enable from the dequeue of _get_ack on
nxslib_channels_enable_ack ==
    /\ pc = "cw_en_wait"
    /\ GetAck
    /\ IF ret'.state
       THEN /\ en_now' = en_new
            /\ dev' = en_channels_update(dev, en_new)
       ELSE UNCHANGED <<en_now, dev>>
    /\ channels_lock' = "free"
    /\ wlog' = Append(wlog, AckEv(ret'))
    /\ pc' = Head(stack)
    /\ stack' = Tail(stack)
    /\ UNCHANGED <<started, q_stream, en_new, div_now, div_new, recvVars,
                   nxsVars, dispVars, wireVars, devVars, timeout, cmn, chans,
                   chi, cntr, op, nops, exc>>

\* ---------------------------------------------------------------------
\* stream start and stop, disconnect
\* ---------------------------------------------------------------------
\* stream_start without its call of channels_write
stream_start_bare ==
    /\ Invoke("stream_start", FALSE)
    /\ dev.set
    /\ wlog' = <<>>
    /\ pc' = IF stream_started THEN "idle" ELSE "ss_start"
    /\ stack' = <<>>
    /\ UNCHANGED <<commVars, chVars, recvVars, nxsVars, dispVars, wireVars,
                   devVars, locVars, n_to>>

\* stream_start without the test of _stream_started
stream_start_always ==
    /\ Invoke("stream_start", FALSE)
    /\ dev.set
    /\ wlog' = <<>>
    /\ pc' = CwEntry
    /\ stack' = <<"ss_start">>
    /\ UNCHANGED <<commVars, chVars, recvVars, nxsVars, dispVars, wireVars,
                   devVars, locVars, n_to>>

\* NxscopeHandler.stream_start up to its call of channels_write
stream_start ==
    /\ Invoke("stream_start", FALSE)
    /\ dev.set
    /\ wlog' = <<>>
    /\ pc' = IF stream_started THEN "idle" ELSE CwEntry
    /\ stack' = IF stream_started THEN <<>> ELSE <<"ss_start">>
    /\ UNCHANGED <<commVars, chVars, recvVars, nxsVars, dispVars, wireVars,
                   devVars, locVars, n_to>>

\* ThreadCommon.thread_start of the dispatcher and the end of
\* NxscopeHandler.stream_start
StartDispatcher ==
    /\ disp_thrd' = IF disp_thrd = "none" THEN "run" ELSE disp_thrd
    /\ disp_stop' = IF disp_thrd = "none" THEN FALSE ELSE disp_stop
    /\ stream_started' = TRUE
    /\ pc' = "idle"

\* _nxslib_start without its call of _reset_stats
nxslib_start_keep ==
    /\ pc = "ss_start"
    /\ UNCHANGED ovf_cntr
    /\ tx' = Append(tx, frame_start(TRUE))
    /\ IF AckImmediate
       THEN /\ ret' = ParseAck(TRUE, 0)
            /\ StartDispatcher
            /\ wlog' = wlog \o <<Wr(frame_start(TRUE)),
                                 AckEv(ParseAck(TRUE, 0)),
                                 Ev("disp_start", NoFrame)>>
       ELSE /\ pc' = "ss_wait"
            /\ wlog' = Append(wlog, Wr(frame_start(TRUE)))
            /\ UNCHANGED <<ret, disp_thrd, disp_stop, stream_started>>
    /\ UNCHANGED <<commVars, chVars, recvVars, connected, sub_q, subq, disp_pc,
                   sdata, didx, samples, write_padding, intf_started, rx,
                   devVars, timeout, cmn, chans, chi, cntr, stack, op, nops,
                   n_to, exc>>

\* NxscopeHandler._nxslib_start with CommHandler.stream_start, up to the
\* dequeue of _get_ack; without ACK support the dispatcher starts at once
nxslib_start ==
    /\ pc = "ss_start"
    /\ ovf_cntr' = 0
    /\ tx' = Append(tx, frame_start(TRUE))
    /\ IF AckImmediate
       THEN /\ ret' = ParseAck(TRUE, 0)
            /\ StartDispatcher
            /\ wlog' = wlog \o <<Wr(frame_start(TRUE)),
                                 AckEv(ParseAck(TRUE, 0)),
                                 Ev("disp_start", NoFrame)>>
       ELSE /\ pc' = "ss_wait"
            /\ wlog' = Append(wlog, Wr(frame_start(TRUE)))
            /\ UNCHANGED <<ret, disp_thrd, disp_stop, stream_started>>
    /\ UNCHANGED <<commVars, chVars, recvVars, connected, sub_q, subq, disp_pc,
                   sdata, didx, samples, write_padding, intf_started, rx,
                   devVars, timeout, cmn, chans, chi, cntr, stack, op, nops,
                   n_to, exc>>

\* CommHandler.stream_start from the dequeue of _get_ack on, and the rest
\* of NxscopeHandler.stream_start
nxslib_start_ack ==
    /\ pc = "ss_wait"
    /\ GetAck
    /\ StartDispatcher
    /\ wlog' = wlog \o <<AckEv(ret'), Ev("disp_start", NoFrame)>>
    /\ UNCHANGED <<started, dev, q_stream, chVars, recvVars, connected, sub_q,
                   subq, ovf_cntr, disp_pc, sdata, didx, samples, wireVars,
                   devVars, timeout, cmn, chans, chi, cntr, stack, op, nops,
                   exc>>

\* NxscopeHandler._nxslib_stop with CommHandler.stream_stop up to the
\* dequeue of _get_ack
NxslibStop ==
    /\ tx' = Append(tx, frame_start(FALSE))
    /\ wlog' = IF AckImmediate
               THEN <<Wr(frame_start(FALSE)), AckEv(ParseAck(TRUE, 0))>>
               ELSE <<Wr(frame_start(FALSE))>>
    /\ ret' = IF AckImmediate THEN ParseAck(TRUE, 0) ELSE ret
    /\ pc' = IF AckImmediate THEN "st_stop" ELSE "st_wait"

\* NxscopeHandler.stream_stop
stream_stop ==
    /\ Invoke("stream_stop", FALSE)
    /\ IF stream_started
       THEN /\ NxslibStop
            /\ stack' = <<"idle">>
       ELSE /\ pc' = "idle"
            /\ wlog' = <<>>
            /\ stack' = <<>>
            /\ UNCHANGED <<tx, ret>>
    /\ UNCHANGED <<commVars, chVars, recvVars, nxsVars, dispVars,
                   write_padding, intf_started, rx, devVars, timeout, cmn,
                   chans, chi, cntr, n_to>>

\* CommHandler.stream_stop from the dequeue of _get_ack on
nxslib_stop_ack ==
    /\ pc = "st_wait"
    /\ GetAck
    /\ wlog' = Append(wlog, AckEv(ret'))
    /\ pc' = "st_stop"
    /\ UNCHANGED <<started, dev, q_stream, chVars, recvVars, nxsVars, dispVars,
                   wireVars, devVars, timeout, cmn, chans, chi, cntr, stack,
                   op, nops, exc>>

\* ThreadCommon.thread_stop of the dispatcher up to its join
stream_thread_stop ==
    /\ pc = "st_stop"
    /\ IF disp_thrd = "none"
       THEN /\ stream_started' = FALSE
            /\ pc' = Head(stack)
            /\ stack' = Tail(stack)
            /\ UNCHANGED disp_stop
       ELSE /\ disp_stop' = TRUE
            /\ pc' = "st_join"
            /\ UNCHANGED <<stream_started, stack>>
    /\ UNCHANGED <<commVars, chVars, recvVars, connected, sub_q, subq,
                   ovf_cntr, disp_thrd, disp_pc, sdata, didx, samples,
                   wireVars, devVars, locVars, op, nops, wlog, n_to, exc>>

\* the join of ThreadCommon.thread_stop returns once the dispatcher has
\* ended; then NxscopeHandler.stream_stop finishes
stream_thread_join ==
    /\ pc = "st_join"
    /\ disp_thrd = "dead"
    /\ disp_thrd' = "none"
    /\ stream_started' = FALSE
    /\ pc' = Head(stack)
    /\ stack' = Tail(stack)
    /\ UNCHANGED <<commVars, chVars, recvVars, connected, sub_q, subq,
                   ovf_cntr, disp_stop, disp_pc, sdata, didx, samples,
                   wireVars, devVars, locVars, op, nops, wlog, n_to, exc>>

\* NxscopeHandler.disconnect up to the first dequeue or join; on a handler
\* that is not started CommHandler._stop does nothing
disconnect ==
    /\ Invoke("disconnect", FALSE)
    /\ IF connected /\ stream_started
       THEN /\ NxslibStop
            /\ stack' = <<"dc_stop">>
       ELSE /\ pc' = IF connected /\ started THEN "dc_stop" ELSE "idle"
            /\ wlog' = <<>>
            /\ stack' = <<>>
            /\ UNCHANGED <<tx, ret>>
    /\ UNCHANGED <<commVars, chVars, recvVars, nxsVars, dispVars,
                   write_padding, intf_started, rx, devVars, timeout, cmn,
                   chans, chi, cntr, n_to>>

\* CommHandler.disconnect / _stop: ThreadCommon.thread_stop of the receive
\* worker up to its join
comm_stop ==
    /\ pc = "dc_stop"
    /\ IF ~started
       THEN /\ pc' = "idle"
            /\ UNCHANGED <<recv_stop, wlog>>
       ELSE /\ pc' = "dc_join"
            /\ recv_stop' = IF recv_thrd = "none" THEN recv_stop ELSE TRUE
            /\ wlog' = Append(wlog, Ev("recv_stop", NoFrame))
    /\ UNCHANGED <<commVars, chVars, recv_thrd, nxsVars, dispVars, wireVars,
                   devVars, locVars, stack, op, nops, n_to, exc, readVars>>

\* CommHandler._stop from the join of the receive worker up to the first
\* dequeue of _drop_all; stop of the transport takes one pending item off
\* each of its queues
comm_stop_join ==
    /\ pc = "dc_join"
    /\ recv_thrd \in {"none", "dead"}
    /\ recv_thrd' = "none"
    /\ intf_started' = FALSE
    /\ tx' = IF tx # <<>> THEN Tail(tx) ELSE tx
    /\ rx' = IF rx # <<>> THEN Tail(rx) ELSE rx
    /\ cntr' = 4
    /\ pc' = "drop"
    /\ stack' = <<"dc_fin">>
    /\ wlog' = Append(wlog, Ev("intf_stop", NoFrame))
    /\ UNCHANGED <<commVars, chVars, recv_stop, nxsVars, dispVars,
                   write_padding, devVars, timeout, cmn, chans, chi, ret, op,
                   nops, n_to, exc, readVars>>

\* the end of CommHandler._stop
comm_stop_fin ==
    /\ pc = "dc_fin"
    /\ started' = FALSE
    /\ dev' = NoDev
    /\ pc' = "idle"
    /\ UNCHANGED <<q, q_stream, chVars, recvVars, nxsVars, dispVars, wireVars,
                   devVars, locVars, stack, op, nops, wlog, n_to, exc>>

\* ---------------------------------------------------------------------
\* subscribers
\* ---------------------------------------------------------------------
\* s without the first occurrence of x
RECURSIVE RemoveFirst(_, _)
RemoveFirst(s, x) ==
    IF s = <<>> THEN <<>>
    ELSE IF Head(s) = x THEN Tail(s)
         ELSE <<Head(s)>> \o RemoveFirst(Tail(s), x)

\* NxscopeHandler.stream_sub while fewer than max queues exist: the new
\* queue gets the next queue id
StreamSub(chan, max) ==
    /\ pc = "idle"
    /\ connected
    /\ Len(subq) < max
    /\ subq' = Append(subq, <<>>)
    /\ sub_q' = [sub_q EXCEPT ![chan + 1] = Append(@, Len(subq) + 1)]
    /\ UNCHANGED <<commVars, chVars, recvVars, connected, stream_started,
                   ovf_cntr, dispVars, wireVars, devVars, locVars, callVars>>

stream_sub(chan) == StreamSub(chan, MaxSubs)

\* subscriber queues created where several share a channel
MaxQueues == 3

stream_sub_more(chan) == StreamSub(chan, MaxQueues)

\* an unsubscribe that empties every channel list holding the queue
UnsubClear(reg, que) ==
    [c \in 1 .. Len(reg) |-> IF que \in Range(reg[c]) THEN <<>> ELSE reg[c]]

\* the registry after the loop of NxscopeHandler.stream_unsub: in every
\* channel list that holds the queue, list.remove takes its first entry
Unsub(reg, que) ==
    [c \in 1 .. Len(reg) |-> RemoveFirst(reg[c], que)]

\* NxscopeHandler.stream_unsub
stream_unsub(que) ==
    /\ pc = "idle"
    /\ sub_q' = Unsub(sub_q, que)
    /\ UNCHANGED <<commVars, chVars, recvVars, connected, stream_started,
                   subq, ovf_cntr, dispVars, wireVars, devVars, locVars,
                   callVars>>

\* ---------------------------------------------------------------------
\* the receive worker
\* ---------------------------------------------------------------------
\* the worker loop without the check of the device record: an ACK that
\* arrives while the device record is None is queued like any other frame
recv_thread_keep_ack ==
    /\ recv_thrd = "run"
    /\ ~recv_stop
    /\ rx # <<>>
    /\ rx' = Tail(rx)
    /\ LET frame == Head(rx)
       IN  IF frame_is_stream(frame)
           THEN /\ q_stream' = Append(q_stream, frame)
                /\ UNCHANGED q
           ELSE /\ q' = Append(q, frame)
                /\ UNCHANGED q_stream
    /\ UNCHANGED <<started, dev, chVars, recvVars, nxsVars, dispVars,
                   write_padding, intf_started, tx, devVars, locVars,
                   callVars>>

\* CommHandler._recv_thread: one iteration of the worker loop that reads
\* a frame (CommHandler._read_frame) and queues it
recv_thread ==
    /\ recv_thrd = "run"
    /\ ~recv_stop
    /\ rx # <<>>
    /\ rx' = Tail(rx)
    /\ LET frame == Head(rx)
       IN  IF frame_is_stream(frame)
           THEN /\ q_stream' = Append(q_stream, frame)
                /\ UNCHANGED q
           ELSE IF ~dev.set /\ frame_is_ack(frame)
                THEN UNCHANGED <<q, q_stream>>
                ELSE /\ q' = Append(q, frame)
                     /\ UNCHANGED q_stream
    /\ UNCHANGED <<started, dev, chVars, recvVars, nxsVars, dispVars,
                   write_padding, intf_started, tx, devVars, locVars,
                   callVars>>

\* ThreadCommon._thread_loop of the receive worker leaves its loop: the
\* stop flag is tested between two calls of _recv_thread
recv_thread_exit ==
    /\ recv_thrd = "run"
    /\ recv_stop
    /\ rd_pc = "loop"
    /\ recv_thrd' = "dead"
    /\ UNCHANGED <<commVars, chVars, recv_stop, nxsVars, dispVars, wireVars,
                   devVars, locVars, callVars, readVars>>

\* ---------------------------------------------------------------------
\* the receive worker at the level of bytes: SerialFrame and the read
\* loops of CommHandler._read_hdr and _read_frame
\* ---------------------------------------------------------------------
\* ESerialFrameHdr
SOF == 85
HDR_END == 4
FOOT == 2
\* EParseId.INVALID, the last frame id
INVALID == 8

\* SerialFrame.hdr_len
hdr_len == HDR_END

\* bitwise exclusive or of two naturals
RECURSIVE Xor(_, _)
Xor(a, b) ==
    IF a = 0 THEN b
    ELSE IF b = 0 THEN a
         ELSE ((a + b) % 2) + 2 * Xor(a \div 2, b \div 2)

\* one shift of a 16-bit CRC register with polynomial poly
CrcStep(poly) ==
    [x \in 0 .. 65535 |->
        IF x >= 32768 THEN Xor((x * 2) % 65536, poly) ELSE x * 2]

\* the register after n shifts; 4129 = 0x1021, the polynomial of
\* CRC-16/XMODEM
RECURSIVE CrcShift(_, _)
CrcShift(crc, n) ==
    IF n = 0 THEN crc ELSE CrcStep(4129)[CrcShift(crc, n - 1)]

\* the table of the byte-wise CRC: the register after the eight shifts of
\* one byte
CrcTable == [b \in 0 .. 255 |-> CrcShift(b * 256, 8)]

\* the register after one more byte b: the low byte of the register moves
\* up and the table entry of (high byte xor b) is xored in
CrcByte(b) ==
    [crc \in 0 .. 65535 |->
        Xor((crc % 256) * 256, CrcTable[Xor(crc \div 256, b)])]

\* the register after the bytes lo .. hi of data, by halves
RECURSIVE CrcRange(_, _, _, _)
CrcRange(data, crc, lo, hi) ==
    IF lo > hi THEN crc
    ELSE IF lo = hi THEN CrcByte(data[lo])[crc]
    ELSE LET mid == (lo + hi) \div 2
         IN  [left \in 0 .. 65535 |-> CrcRange(data, left, mid + 1, hi)]
                 [CrcRange(data, crc, lo, mid)]

\* crcmod.predefined.mkCrcFun("xmodem") from the register value crc
Crc16(data, crc) == CrcRange(data, crc, 1, Len(data))

\* frame_create with the CRC packed little-endian
SerialFrameBytesLE(fid, data) ==
    LET flen == 6 + Len(data)
        body == <<SOF, flen % 256, flen \div 256, fid>> \o data
        crc == Crc16(body, 0)
    IN  body \o <<crc % 256, crc \div 256>>

\* SerialFrame.frame_create: the bytes of a frame
SerialFrameBytes(fid, data) ==
    LET flen == 6 + Len(data)
        body == <<SOF, flen % 256, flen \div 256, fid>> \o data
        crc == Crc16(body, 0)
    IN  body \o <<crc \div 256, crc % 256>>

\* SerialFrame.hdr_find: 0-based index of the first SOF, -1 if there is none
hdr_find(data) ==
    IF \E i \in 1 .. Len(data) : data[i] = SOF
    THEN (CHOOSE i \in 1 .. Len(data) :
              data[i] = SOF /\ \A j \in 1 .. (i - 1) : data[j] # SOF) - 1
    ELSE 0 - 1

\* SerialFrame.hdr_decode; err = TRUE stands for EParseError.HDR
hdr_decode(data) ==
    IF Len(data) < hdr_len
    THEN [err |-> TRUE, fid |-> 0, flen |-> 0]
    ELSE IF data[1] # SOF \/ data[4] > INVALID
         THEN [err |-> TRUE, fid |-> 0, flen |-> 0]
         ELSE [err |-> FALSE, fid |-> data[4],
               flen |-> data[2] + 256 * data[3]]

\* SerialFrame.foot_validate
foot_validate(data) == \E d \in {data} : Crc16(d, 0) = 0

\* SerialFrame.frame_decode; err = TRUE stands for HDR or FOOT
frame_decode(data) ==
    LET hdr == hdr_decode(data)
    IN  IF hdr.err \/ ~foot_validate(Slice(data, 0, hdr.flen))
        THEN [err |-> TRUE, fid |-> 0, data |-> <<>>]
        ELSE [err |-> FALSE, fid |-> hdr.fid,
              data |-> Slice(data, HDR_END, hdr.flen - 2)]

\* CommInterfaceCommon.read: the next chunk of the transport, or no bytes
\* when the read times out
ReadChunk == IF wire = <<>> THEN <<>> ELSE Head(wire)
ReadDone ==
    /\ wire' = IF wire = <<>> THEN wire ELSE Tail(wire)
    /\ rd_tick' = 1 - rd_tick

\* what no step of the byte reader touches
ReaderFrame ==
    UNCHANGED <<started, dev, chVars, recv_thrd, recv_stop, nxsVars, dispVars,
                wireVars, devVars, locVars, callVars>>

\* ThreadCommon._thread_loop finds the stop flag clear, calls _recv_thread,
\* and _read_hdr starts from the carry-over buffer
read_enter ==
    /\ recv_thrd = "run"
    /\ ~recv_stop
    /\ rd_pc = "loop"
    /\ rd_bytes' = prev_read
    /\ rd_pc' = "hdr"
    /\ UNCHANGED <<q, q_stream, prev_read, rd_tick, wire>>
    /\ ReaderFrame

\* CommHandler._read_hdr: one read of the inner loop, taken while fewer
\* than hdr_len bytes are at hand; _read_hdr returns None only if no byte
\* at all is at hand after the read
read_hdr_fill ==
    /\ recv_thrd = "run"
    /\ rd_pc = "hdr"
    /\ Len(rd_bytes) < hdr_len
    /\ ReadDone
    /\ LET bytes == rd_bytes \o ReadChunk
       IN  /\ rd_bytes' = bytes
           /\ rd_pc' = IF bytes = <<>> THEN "loop" ELSE "hdr"
    /\ UNCHANGED <<q, q_stream, prev_read>>
    /\ ReaderFrame

\* CommHandler._read_hdr with hdr_len bytes at hand: the search for the
\* header and its decoding; an invalid header drops one byte and starts
\* over from the carry-over buffer
read_hdr_find ==
    /\ recv_thrd = "run"
    /\ rd_pc = "hdr"
    /\ Len(rd_bytes) >= hdr_len
    /\ LET i == hdr_find(rd_bytes)
           bytes == Slice(rd_bytes, i, Len(rd_bytes))
           hdr == hdr_decode(bytes)
       IN  IF i < 0
           THEN /\ prev_read' = <<>>
                /\ rd_bytes' = <<>>
                /\ rd_pc' = "loop"
           ELSE IF hdr.err
                THEN /\ prev_read' = Slice(bytes, 1, Len(bytes))
                     /\ rd_bytes' = prev_read'
                     /\ rd_pc' = "hdr"
                ELSE /\ rd_bytes' = bytes
                     /\ rd_pc' = "frame"
                     /\ UNCHANGED prev_read
    /\ UNCHANGED <<q, q_stream, rd_tick, wire>>
    /\ ReaderFrame

\* CommHandler._read_frame: one read of the loop that collects the rest of
\* the frame; a read without bytes ends the loop and the bytes at hand
\* are carried over
read_frame_fill ==
    /\ recv_thrd = "run"
    /\ rd_pc = "frame"
    /\ Len(rd_bytes) < hdr_decode(rd_bytes).flen
    /\ ReadDone
    /\ IF ReadChunk = <<>>
       THEN /\ prev_read' = rd_bytes
            /\ rd_bytes' = <<>>
            /\ rd_pc' = "loop"
       ELSE /\ rd_bytes' = rd_bytes \o ReadChunk
            /\ rd_pc' = "frame"
            /\ UNCHANGED prev_read
    /\ UNCHANGED <<q, q_stream>>
    /\ ReaderFrame

\* CommHandler._read_frame with the whole frame at hand, and the rest of
\* CommHandler._recv_thread: a frame that does not decode drops one byte,
\* a decoded frame goes to its queue
read_frame_decode ==
    /\ recv_thrd = "run"
    /\ rd_pc = "frame"
    /\ Len(rd_bytes) >= hdr_decode(rd_bytes).flen
    /\ \E flen \in {hdr_decode(rd_bytes).flen} :
         \E decoded \in {frame_decode(Slice(rd_bytes, 0, flen))} :
           \E frame \in {frame_create(decoded.fid, decoded.data)} :
             IF decoded.err
             THEN /\ prev_read' = Slice(rd_bytes, 1, Len(rd_bytes))
                  /\ UNCHANGED <<q, q_stream>>
             ELSE /\ prev_read' = Slice(rd_bytes, flen, Len(rd_bytes))
                  /\ IF frame_is_stream(frame)
                     THEN /\ q_stream' = Append(q_stream, frame)
                          /\ UNCHANGED q
                     ELSE IF ~dev.set /\ frame_is_ack(frame)
                          THEN UNCHANGED <<q, q_stream>>
                          ELSE /\ q' = Append(q, frame)
                               /\ UNCHANGED q_stream
    /\ rd_bytes' = <<>>
    /\ rd_pc' = "loop"
    /\ UNCHANGED <<rd_tick, wire>>
    /\ ReaderFrame

\* ---------------------------------------------------------------------
\* the stream dispatcher
\* ---------------------------------------------------------------------
\* NxscopeHandler._stream_thread up to the sample loop: a frame is taken
\* from the stream queue and decoded (CommHandler.stream_data), the
\* overflow flag is counted.  A failed assert or decode ends the worker.
stream_thread ==
    /\ disp_thrd = "run"
    /\ disp_pc = "get"
    /\ ~disp_stop
    /\ IF ~dev.set
       THEN /\ disp_thrd' = "dead"
            /\ UNCHANGED <<q_stream, ovf_cntr, sdata, didx, samples, disp_pc>>
       ELSE /\ q_stream # <<>>
            /\ q_stream' = Tail(q_stream)
            /\ LET sd == frame_stream_decode(Head(q_stream), dev)
               IN  IF sd.err
                   THEN /\ disp_thrd' = "dead"
                        /\ UNCHANGED <<ovf_cntr, sdata, didx, samples,
                                       disp_pc>>
                   ELSE IF ~sd.ok
                        THEN UNCHANGED <<disp_thrd, ovf_cntr, sdata, didx,
                                         samples, disp_pc>>
                        ELSE /\ ovf_cntr' = IF flags_is_overflow(sd.flags)
                                            THEN ovf_cntr + 1 ELSE ovf_cntr
                             /\ sdata' = sd.samples
                             /\ didx' = 1
                             /\ samples' = [c \in 1 .. dev.chmax |-> <<>>]
                             /\ disp_pc' = IF sd.samples = <<>> THEN "put"
                                           ELSE "iter"
                             /\ UNCHANGED disp_thrd
    /\ UNCHANGED <<started, dev, q, chVars, recvVars, connected,
                   stream_started, sub_q, subq, disp_stop, wireVars, devVars,
                   locVars, callVars>>

\* CommHandler.ch_is_enabled
ch_is_enabled(chan) == en_now[chan + 1]

\* CommHandler.ch_div_get
ch_div_get(chan) == div_now[chan + 1]

\* one round of the sample loop of NxscopeHandler._stream_thread;
\* ch_is_enabled takes the channel-state lock
stream_thread_sample ==
    /\ disp_thrd = "run"
    /\ disp_pc = "iter"
    /\ channels_lock = "free"
    /\ LET data == sdata[didx]
       IN  samples' = IF ch_is_enabled(data.chan)
                      THEN [samples EXCEPT ![data.chan + 1] =
                               Append(@, DNxscopeStream(data.data, data.meta))]
                      ELSE samples
    /\ didx' = didx + 1
    /\ disp_pc' = IF didx = Len(sdata) THEN "put" ELSE "iter"
    /\ UNCHANGED <<commVars, chVars, recvVars, nxsVars, disp_thrd, disp_stop,
                   sdata, wireVars, devVars, locVars, callVars>>

\* a fan-out that puts the batches to every queue, registered or not
FanOutAll(queues, registry, batch) ==
    [k \in 1 .. Len(queues) |->
        IF \E c \in 1 .. Len(registry) : batch[c] # <<>>
        THEN LET c == CHOOSE c \in 1 .. Len(registry) : batch[c] # <<>>
             IN  Append(queues[k], batch[c])
        ELSE queues[k]]

\* a fan-out that puts the batch at the head of the queue
FanOutFront(queues, registry, batch) ==
    [k \in 1 .. Len(queues) |->
        IF \E c \in 1 .. Len(registry) :
               batch[c] # <<>> /\ k \in Range(registry[c])
        THEN LET c == CHOOSE c \in 1 .. Len(registry) :
                          batch[c] # <<>> /\ k \in Range(registry[c])
             IN  <<batch[c]>> \o queues[k]
        ELSE queues[k]]

\* the queues of subq after one put of batch[c] to every queue of
\* registry[c], for every channel c with a non-empty batch
FanOut(queues, registry, batch) ==
    [k \in 1 .. Len(queues) |->
        IF \E c \in 1 .. Len(registry) :
               batch[c] # <<>> /\ k \in Range(registry[c])
        THEN LET c == CHOOSE c \in 1 .. Len(registry) :
                          batch[c] # <<>> /\ k \in Range(registry[c])
             IN  Append(queues[k], batch[c])
        ELSE queues[k]]

\* the end of NxscopeHandler._stream_thread: under the registry lock every
\* non-empty batch is put to the subscribers of its channel
stream_thread_put ==
    /\ disp_thrd = "run"
    /\ disp_pc = "put"
    /\ subq' = FanOut(subq, sub_q, samples)
    /\ disp_pc' = "get"
    /\ UNCHANGED <<commVars, chVars, recvVars, connected, stream_started,
                   sub_q, ovf_cntr, disp_thrd, disp_stop, sdata, didx, samples,
                   wireVars, devVars, locVars, callVars>>

\* ThreadCommon._thread_loop of the dispatcher leaves its loop
stream_thread_exit ==
    /\ disp_thrd = "run"
    /\ disp_pc = "get"
    /\ disp_stop
    /\ disp_thrd' = "dead"
    /\ UNCHANGED <<commVars, chVars, recvVars, nxsVars, disp_stop, disp_pc,
                   sdata, didx, samples, wireVars, devVars, locVars, callVars>>

\* ---------------------------------------------------------------------
\* the device
\* ---------------------------------------------------------------------
\* the device takes the next write of the host (DummyDev._thread_recv,
\* ParseRecv.recv_handle and the callback of the frame id) and answers;
\* a write that holds no frame is ignored
dev_recv ==
    /\ intf_started
    /\ tx # <<>>
    /\ tx' = Tail(tx)
    /\ LET frame == Head(tx)
           acks == IF (d_flags \div 2) % 2 = 1 THEN AckCodes ELSE {0}
       IN  \E code \in acks :
           LET ack == IF (d_flags \div 2) % 2 = 1
                      THEN <<frame_ack_encode(code)>> ELSE <<>>
           IN  CASE frame.fid = CMNINFO ->
                      /\ rx' = Append(rx, frame_cmninfo_encode(Len(d_en), d_flags,
                                                               d_rxpadding))
                      /\ UNCHANGED <<d_en, d_div, d_stream>>
                 [] frame.fid = CHINFO ->
                      /\ rx' = Append(rx,
                                 frame_chinfo_encode(frame.data[1],
                                     d_en[frame.data[1] + 1],
                                     d_div[frame.data[1] + 1]))
                      /\ UNCHANGED <<d_en, d_div, d_stream>>
                 [] frame.fid = ENABLE ->
                      /\ d_en' = IF code = 0
                                 THEN frame_enable_decode(frame.data, d_en)
                                 ELSE d_en
                      /\ rx' = rx \o ack
                      /\ UNCHANGED <<d_div, d_stream>>
                 [] frame.fid = DIV ->
                      /\ d_div' = IF code = 0
                                  THEN frame_div_decode(frame.data, d_div)
                                  ELSE d_div
                      /\ rx' = rx \o ack
                      /\ UNCHANGED <<d_en, d_stream>>
                 [] frame.fid = START ->
                      /\ d_stream' = IF code = 0 THEN frame.data[1] # 0
                                     ELSE d_stream
                      /\ rx' = rx \o ack
                      /\ UNCHANGED <<d_en, d_div>>
                 [] OTHER ->
                      UNCHANGED <<rx, d_en, d_div, d_stream>>
    /\ UNCHANGED <<commVars, chVars, recvVars, nxsVars, dispVars,
                   write_padding, intf_started, d_flags, d_rxpadding,
                   extVars, n_stream, locVars, callVars>>

\* the device takes the next write of the host and answers nothing:
\* ParseRecv.recv_handle returns without a callback when the bytes it is
\* given hold no valid frame (a request damaged on the wire), and a device
\* that is busy or absent answers no request at all
dev_drop ==
    /\ intf_started
    /\ tx # <<>>
    /\ tx' = Tail(tx)
    /\ UNCHANGED <<commVars, chVars, recvVars, nxsVars, dispVars,
                   write_padding, intf_started, rx, devVars, locVars,
                   callVars>>

\* sequences of at most n channel ids
RECURSIVE ChanSeqs(_)
ChanSeqs(n) ==
    IF n = 0 THEN {<<>>}
    ELSE ChanSeqs(n - 1) \cup
         {Append(s, c) : s \in {t \in ChanSeqs(n - 1) : Len(t) = n - 1},
                         c \in Chans}

\* samples in one STREAM frame
MaxSamples == 2

\* the streaming device emits a STREAM frame (DummyDev._thread_stream), at
\* most max of them; the samples of the n-th frame hold the values from
\* (n - 1) * MaxSamples + 1 on, so that a sample tells its frame
DevStream(max) ==
    /\ intf_started
    /\ d_stream
    /\ n_stream < max
    /\ n_stream' = n_stream + 1
    /\ \E flags \in {0, OVERFLOW}, cs \in ChanSeqs(MaxSamples) :
           rx' = Append(rx, frame_stream_encode(flags, cs,
                                                n_stream * MaxSamples + 1))
    /\ UNCHANGED <<commVars, chVars, recvVars, nxsVars, dispVars,
                   write_padding, intf_started, tx, d_en, d_div, d_stream,
                   d_flags, d_rxpadding, extVars, locVars, callVars>>

dev_stream == DevStream(MaxStream)

\* STREAM frames the device emits where their order is observed
MaxFrames == 2

dev_stream_seq == DevStream(MaxFrames)

\* STREAM payloads that do not decode on a device of ChMax channels: a
\* sample of a channel id >= chmax, and a sample of channel 0 cut short
BadPayloads == {<<0, ChMax, 1>>, <<0, 0>>}

\* a STREAM frame with a malformed payload arrives from the transport
dev_stream_bad ==
    /\ intf_started
    /\ d_stream
    /\ n_stream < MaxFrames
    /\ n_stream' = n_stream + 1
    /\ \E data \in BadPayloads : rx' = Append(rx, frame_create(STREAM, data))
    /\ UNCHANGED <<commVars, chVars, recvVars, nxsVars, dispVars,
                   write_padding, intf_started, tx, d_en, d_div, d_stream,
                   d_flags, d_rxpadding, extVars, locVars, callVars>>

\* ---------------------------------------------------------------------
\* specification
\* ---------------------------------------------------------------------
ChanSets == (SUBSET Chans) \ {{}}

Next ==
    \/ connect
    \/ drop_all_frames
    \/ start_cmninfo
    \/ nxslib_cmninfo
    \/ devinfo_get
    \/ nxslib_chinfo
    \/ \E cs \in ChanSets, wn \in BOOLEAN : ch_enable(cs, wn)
    \/ \E cs \in ChanSets, wn \in BOOLEAN : ch_disable(cs, wn)
    \/ \E cs \in ChanSets, d \in 0 .. MaxDiv, wn \in BOOLEAN :
           ch_divider(cs, d, wn)
    \/ ch_enable_all
    \/ ch_disable_all
    \/ \E wn \in BOOLEAN : channels_default_cfg(wn)
    \/ channels_write
    \/ nxslib_channels_div
    \/ nxslib_channels_div_ack
    \/ nxslib_channels_enable
    \/ nxslib_channels_enable_ack
    \/ stream_start
    \/ nxslib_start
    \/ nxslib_start_ack
    \/ stream_stop
    \/ nxslib_stop_ack
    \/ stream_thread_stop
    \/ stream_thread_join
    \/ disconnect
    \/ comm_stop
    \/ comm_stop_join
    \/ comm_stop_fin
    \/ \E chan \in Chans : stream_sub(chan)
    \/ \E que \in 1 .. MaxSubs : stream_unsub(que)
    \/ recv_thread
    \/ recv_thread_exit
    \/ stream_thread
    \/ stream_thread_sample
    \/ stream_thread_put
    \/ stream_thread_exit
    \/ dev_recv
    \/ dev_drop
    \/ dev_stream

Spec == Init /\ [][Next]_vars

\* ---------------------------------------------------------------------
\* the handshake alone: connect against every device, with late replies
\* and a device that is streaming when the host shows up
\* ---------------------------------------------------------------------
Workers == recv_thread \/ dev_recv

Handshake ==
    \/ connect
    \/ drop_all_frames
    \/ start_cmninfo
    \/ nxslib_cmninfo
    \/ devinfo_get
    \/ nxslib_chinfo

NextConnect == Handshake \/ Workers \/ dev_stream

\* the devices of the handshake have up to ChMaxConnect channels
InitConnect == InitHost /\ \E n \in ChMax .. ChMaxConnect : InitDev(n)

SpecConnect == InitConnect /\ [][NextConnect]_vars

\* ---------------------------------------------------------------------
\* the handshake against a device that may leave any request unanswered
\* ---------------------------------------------------------------------
NextSilent == Handshake \/ Workers \/ dev_drop

SpecSilent == Init /\ [][NextSilent]_vars

\* the steps of the caller inside connect
ConnectSteps ==
    \/ drop_all_frames
    \/ start_cmninfo
    \/ nxslib_cmninfo
    \/ devinfo_get
    \/ nxslib_chinfo

\* the caller, the receive worker and the device each keep running
SpecSilentFair ==
    /\ SpecSilent
    /\ WF_vars(ConnectSteps)
    /\ WF_vars(recv_thread)
    /\ WF_vars(dev_recv \/ dev_drop)

\* ---------------------------------------------------------------------
\* channel configuration: connect, the buffered channel operations and
\* channels_write, against every device that is not streaming
\* ---------------------------------------------------------------------
InitConfig == Init /\ ~d_stream

Commit ==
    \/ nxslib_channels_div
    \/ nxslib_channels_div_ack
    \/ nxslib_channels_enable
    \/ nxslib_channels_enable_ack

ConfigOps ==
    \/ \E cs \in ChanSets, wn \in BOOLEAN : ch_enable(cs, wn)
    \/ \E cs \in ChanSets, wn \in BOOLEAN : ch_disable(cs, wn)
    \/ \E cs \in ChanSets, d \in 0 .. MaxDiv, wn \in BOOLEAN :
           ch_divider(cs, d, wn)
    \/ ch_enable_all
    \/ ch_disable_all
    \/ \E wn \in BOOLEAN : channels_default_cfg(wn)
    \/ channels_write

NextConfig ==
    \/ Handshake
    \/ Workers
    \/ ConfigOps
    \/ Commit

SpecConfig == InitConfig /\ [][NextConfig]_vars

\* ---------------------------------------------------------------------
\* the receive path: connect and channels_write against every device,
\* streaming or not when the host shows up
\* ---------------------------------------------------------------------
NextRecv ==
    \/ Handshake
    \/ Workers
    \/ dev_stream
    \/ channels_write
    \/ Commit

SpecRecv == Init /\ [][NextRecv]_vars

\* ---------------------------------------------------------------------
\* streaming: connect, subscriptions, stream start and stop, the
\* dispatcher, and commits of the enable vector while the stream runs,
\* against the devices without divider support
\* ---------------------------------------------------------------------
InitStream == Init /\ ~d_stream /\ d_flags \in {0, ACK_SUPPORT}

Dispatcher ==
    \/ stream_thread
    \/ stream_thread_sample
    \/ stream_thread_put
    \/ stream_thread_exit

StreamOps ==
    \/ stream_start
    \/ stream_stop
    \/ \E chan \in Chans : stream_sub(chan)
    \/ \E que \in 1 .. MaxSubs : stream_unsub(que)
    \/ \E cs \in ChanSets : ch_enable(cs, TRUE)
    \/ \E cs \in ChanSets : ch_disable(cs, TRUE)

StreamSteps ==
    \/ nxslib_start
    \/ nxslib_start_ack
    \/ nxslib_stop_ack
    \/ stream_thread_stop
    \/ stream_thread_join

NextStream ==
    \/ Handshake
    \/ Workers
    \/ dev_stream
    \/ StreamOps
    \/ StreamSteps
    \/ nxslib_channels_enable
    \/ nxslib_channels_enable_ack
    \/ Dispatcher

SpecStream == InitStream /\ [][NextStream]_vars

\* ---------------------------------------------------------------------
\* the lifecycle: connect, stream start and stop, disconnect, with the
\* workers they start and stop, against the devices without divider
\* support
\* ---------------------------------------------------------------------
Teardown ==
    \/ disconnect
    \/ comm_stop
    \/ comm_stop_join
    \/ comm_stop_fin
    \/ recv_thread_exit

NextLife ==
    \/ Handshake
    \/ Workers
    \/ dev_stream
    \/ stream_start
    \/ stream_stop
    \/ StreamSteps
    \/ nxslib_channels_enable
    \/ nxslib_channels_enable_ack
    \/ Dispatcher
    \/ Teardown

SpecLife == InitStream /\ [][NextLife]_vars

\* ---------------------------------------------------------------------
\* disconnect on a connected handler whose receive worker reads bytes:
\* every carry-over buffer and every sequence of chunks the transport
\* delivers from then on
\* ---------------------------------------------------------------------
\* bytes of the longest carry-over buffer that is no piece of a frame
MaxCarry == 3
\* chunks the transport still delivers
MaxChunks == 2

\* sequences of at most n elements of S
RECURSIVE SeqsUpTo(_, _)
SeqsUpTo(S, n) ==
    IF n = 0 THEN {<<>>}
    ELSE SeqsUpTo(S, n - 1) \cup
         {Append(t, x) : t \in {u \in SeqsUpTo(S, n - 1) : Len(u) = n - 1},
                         x \in S}

\* the bytes of a frame the device may send: a CMNINFO frame without data
WireFrame == SerialFrameBytes(CMNINFO, <<>>)

\* carry-over buffers: short byte strings and the beginnings of a frame
PrevReads ==
    SeqsUpTo({SOF, 0, 6}, MaxCarry) \cup
    {SubSeq(WireFrame, 1, n) : n \in 1 .. Len(WireFrame)}

\* chunks of one read: nothing, single bytes, a frame and the ends of one
WireChunks ==
    {<<>>, <<SOF>>, <<0>>} \cup
    {SubSeq(WireFrame, n, Len(WireFrame)) : n \in 1 .. Len(WireFrame)}

\* the record of a device of ChMax disabled channels without flags
ReadDev ==
    Device(ChMax, 0, 0,
           [i \in 1 .. ChMax |->
               DeviceChannel(i - 1, DevChannel(i - 1).type,
                             DevChannel(i - 1).vdim, FALSE, 0,
                             DevChannel(i - 1).mlen, DevChannel(i - 1).name)])

\* the handler after connect, but for the carry-over buffer, the wire and
\* the frames in flight from the device
InitConnected ==
    /\ rd_pc = "loop"
    /\ rd_bytes = <<>>
    /\ rd_tick = 0
    /\ started = TRUE
    /\ dev = ReadDev
    /\ q = <<>>
    /\ q_stream = <<>>
    /\ en_now = channels_en(ReadDev) /\ en_new = channels_en(ReadDev)
    /\ div_now = channels_div(ReadDev) /\ div_new = channels_div(ReadDev)
    /\ channels_lock = "free"
    /\ recv_thrd = "run"
    /\ recv_stop = FALSE
    /\ connected = TRUE
    /\ stream_started = FALSE
    /\ sub_q = [c \in 1 .. ChMax |-> <<>>]
    /\ subq = <<>>
    /\ ovf_cntr = 0
    /\ disp_thrd = "none"
    /\ disp_stop = FALSE
    /\ disp_pc = "get"
    /\ sdata = <<>>
    /\ didx = 1
    /\ samples = <<>>
    /\ write_padding = 0
    /\ intf_started = TRUE
    /\ tx = <<>>
    /\ d_en = [i \in 1 .. ChMax |-> FALSE]
    /\ d_div = [i \in 1 .. ChMax |-> 0]
    /\ d_stream = FALSE
    /\ d_flags = 0
    /\ d_rxpadding = 0
    /\ InitExt
    /\ n_stream = 0
    /\ pc = "idle"
    /\ stack = <<>>
    /\ timeout = 4
    /\ cmn = [ok |-> TRUE, chmax |-> ChMax, flags |-> 0, rxpadding |-> 0]
    /\ chans = ReadDev.channels
    /\ chi = ChMax
    /\ cntr = 0
    /\ ret = ParseAck(TRUE, 0)
    /\ op = [name |-> "connect", writenow |-> FALSE]
    /\ nops = 1
    /\ wlog = <<Ev("intf_start", NoFrame), Ev("recv_start", NoFrame),
                Wr(frame_start(FALSE)), AckEv(ParseAck(TRUE, 0)),
                Wr(frame_cmninfo)>>
               \o [i \in 1 .. ChMax |-> Wr(frame_chinfo(i - 1))]
    /\ n_to = 0
    /\ exc = ""

InitRead ==
    /\ prev_read \in PrevReads
    /\ wire \in SeqsUpTo(WireChunks, MaxChunks)
    /\ rx = <<>>
    /\ InitConnected

\* the steps of the receive worker
ReaderSteps ==
    \/ read_enter
    \/ read_hdr_fill
    \/ read_hdr_find
    \/ read_frame_fill
    \/ read_frame_decode
    \/ recv_thread_exit

\* the steps of the caller inside disconnect
TeardownSteps ==
    \/ comm_stop
    \/ comm_stop_join
    \/ drop_all_frames
    \/ comm_stop_fin

NextRead ==
    \/ disconnect
    \/ TeardownSteps
    \/ ReaderSteps

SpecRead == InitRead /\ [][NextRead]_vars

\* the caller and the receive worker each keep running
SpecReadFair ==
    /\ SpecRead
    /\ WF_vars(TeardownSteps)
    /\ WF_vars(ReaderSteps)

\* ---------------------------------------------------------------------
\* the start of the stream: connect, buffered channel operations and
\* stream_start with the commit it runs, against every device
\* ---------------------------------------------------------------------
BufferedCfg ==
    \/ \E cs \in ChanSets : ch_enable(cs, FALSE)
    \/ \E cs \in ChanSets, d \in 0 .. MaxDiv : ch_divider(cs, d, FALSE)

NextStart ==
    \/ Handshake
    \/ Workers
    \/ BufferedCfg
    \/ stream_start
    \/ Commit
    \/ nxslib_start
    \/ nxslib_start_ack

SpecStart == InitConfig /\ [][NextStart]_vars

\* ---------------------------------------------------------------------
\* the order of the batches: connect, subscriptions and stream_start
\* against the devices without divider support, which then emit up to
\* MaxFrames STREAM frames
\* ---------------------------------------------------------------------
NextOrder ==
    \/ Handshake
    \/ Workers
    \/ dev_stream_seq
    \/ \E chan \in Chans : stream_sub(chan)
    \/ stream_start
    \/ nxslib_channels_enable
    \/ nxslib_channels_enable_ack
    \/ nxslib_start
    \/ nxslib_start_ack
    \/ stream_thread
    \/ stream_thread_sample
    \/ stream_thread_put

SpecOrder == InitStream /\ [][NextOrder]_vars

\* ---------------------------------------------------------------------
\* subscriptions against the dispatcher: subscribe and unsubscribe at any
\* moment of a stream of up to MaxFrames frames, with a disable commit in
\* between, against the device without flags whose channels start enabled
\* ---------------------------------------------------------------------
InitSubs ==
    /\ InitStream
    /\ d_flags = 0
    /\ d_en = [i \in 1 .. ChMax |-> TRUE]

NextSubs ==
    \/ Handshake
    \/ Workers
    \/ dev_stream_seq
    \/ \E chan \in Chans : stream_sub(chan)
    \/ \E que \in 1 .. MaxSubs : stream_unsub(que)
    \/ stream_start
    \/ \E cs \in ChanSets : ch_disable(cs, TRUE)
    \/ nxslib_channels_enable
    \/ nxslib_start
    \/ stream_thread
    \/ stream_thread_sample
    \/ stream_thread_put

SpecSubs == InitSubs /\ [][NextSubs]_vars

\* ---------------------------------------------------------------------
\* the registry: connect, then up to MaxQueues subscriptions and any
\* unsubscriptions, of queues that exist and of one that never did
\* ---------------------------------------------------------------------
NextRegistry ==
    \/ Handshake
    \/ Workers
    \/ \E chan \in Chans : stream_sub_more(chan)
    \/ \E que \in 1 .. MaxQueues + 1 : stream_unsub(que)

SpecRegistry == InitSubs /\ [][NextRegistry]_vars

\* ---------------------------------------------------------------------
\* a second streaming session: the handler is connected and an earlier
\* session (stream_start ... stream_stop) has left a count of overflow
\* frames behind; the operation, frame and timeout budgets count from here
\* ---------------------------------------------------------------------
InitSession ==
    /\ InitReader
    /\ started = TRUE
    /\ \E flags \in {0, ACK_SUPPORT} :
           /\ d_flags = flags
           /\ dev = [ReadDev EXCEPT !.flags = flags]
           /\ cmn = [ok |-> TRUE, chmax |-> ChMax, flags |-> flags,
                     rxpadding |-> 0]
    /\ q = <<>>
    /\ q_stream = <<>>
    /\ en_now = channels_en(ReadDev) /\ en_new = channels_en(ReadDev)
    /\ div_now = channels_div(ReadDev) /\ div_new = channels_div(ReadDev)
    /\ channels_lock = "free"
    /\ recv_thrd = "run"
    /\ recv_stop = FALSE
    /\ connected = TRUE
    /\ stream_started = FALSE
    /\ sub_q = [c \in 1 .. ChMax |-> <<>>]
    /\ subq = <<>>
    /\ ovf_cntr \in 1 .. MaxStream
    /\ disp_thrd = "none"
    /\ disp_stop = TRUE
    /\ disp_pc = "get"
    /\ sdata = <<>>
    /\ didx = 1
    /\ samples = [c \in 1 .. ChMax |-> <<>>]
    /\ write_padding = 0
    /\ intf_started = TRUE
    /\ tx = <<>>
    /\ rx = <<>>
    /\ d_en = [i \in 1 .. ChMax |-> FALSE]
    /\ d_div = [i \in 1 .. ChMax |-> 0]
    /\ d_stream = FALSE
    /\ d_rxpadding = 0
    /\ InitExt
    /\ n_stream = 0
    /\ pc = "idle"
    /\ stack = <<>>
    /\ timeout = 4
    /\ chans = ReadDev.channels
    /\ chi = ChMax
    /\ cntr = 0
    /\ ret = ParseAck(TRUE, 0)
    /\ op = [name |-> "stream_stop", writenow |-> FALSE]
    /\ nops = 1
    /\ wlog = <<Wr(frame_start(FALSE)), AckEv(ParseAck(TRUE, 0))>>
    /\ n_to = 0
    /\ exc = ""

NextSession ==
    \/ Workers
    \/ dev_stream
    \/ StreamOps
    \/ StreamSteps
    \/ nxslib_channels_enable
    \/ nxslib_channels_enable_ack
    \/ Dispatcher

SpecSession == InitSession /\ [][NextSession]_vars

\* ---------------------------------------------------------------------
\* one streaming session with subscribers, from connect to stream_stop
\* ---------------------------------------------------------------------
NextStop ==
    \/ Handshake
    \/ Workers
    \/ dev_stream_seq
    \/ \E chan \in Chans : stream_sub(chan)
    \/ stream_start
    \/ stream_stop
    \/ nxslib_start
    \/ stream_thread_stop
    \/ stream_thread_join
    \/ nxslib_channels_enable
    \/ Dispatcher

SpecStop == InitSubs /\ [][NextStop]_vars

\* ---------------------------------------------------------------------
\* stream_stop called with a frame in the stream queue: the handler is
\* streaming with one subscriber, the first frame of the device waits in
\* the stream queue, and the caller has just sent STOP; the operation and
\* timeout budgets count from here
\* ---------------------------------------------------------------------
StreamDev ==
    [ReadDev EXCEPT !.channels =
        [i \in 1 .. ChMax |-> [ReadDev.channels[i] EXCEPT !.en = TRUE]]]

\* a streaming session with all channels enabled and one STREAM frame on
\* the stream queue, but for the subscribers and the position of the
\* caller
InitStreaming(flags) ==
    /\ InitReader
    /\ started = TRUE
    /\ dev = [StreamDev EXCEPT !.flags = flags]
    /\ q = <<>>
    /\ \E cs \in ChanSeqs(MaxSamples) \ {<<>>} :
           q_stream = <<frame_stream_encode(0, cs, 1)>>
    /\ en_now = channels_en(StreamDev) /\ en_new = channels_en(StreamDev)
    /\ div_now = channels_div(StreamDev) /\ div_new = channels_div(StreamDev)
    /\ channels_lock = "free"
    /\ recv_thrd = "run"
    /\ recv_stop = FALSE
    /\ connected = TRUE
    /\ stream_started = TRUE
    /\ ovf_cntr = 0
    /\ disp_thrd = "run"
    /\ disp_stop = FALSE
    /\ disp_pc = "get"
    /\ sdata = <<>>
    /\ didx = 1
    /\ samples = <<>>
    /\ write_padding = 0
    /\ intf_started = TRUE
    /\ rx = <<>>
    /\ d_en = [i \in 1 .. ChMax |-> TRUE]
    /\ d_div = [i \in 1 .. ChMax |-> 0]
    /\ d_stream = TRUE
    /\ d_flags = flags
    /\ d_rxpadding = 0
    /\ InitExt
    /\ n_stream = 1
    /\ timeout = 4
    /\ cmn = [ok |-> TRUE, chmax |-> ChMax, flags |-> flags,
              rxpadding |-> 0]
    /\ chans = StreamDev.channels
    /\ chi = ChMax
    /\ cntr = 0
    /\ ret = ParseAck(TRUE, 0)
    /\ n_to = 0
    /\ exc = ""

InitStopCalled ==
    /\ InitStreaming(0)
    /\ \E chan \in Chans :
           sub_q = [c \in 1 .. ChMax |-> IF c = chan + 1 THEN <<1>> ELSE <<>>]
    /\ subq = << <<>> >>
    /\ tx = <<frame_start(FALSE)>>
    /\ pc = "st_stop"
    /\ stack = <<"idle">>
    /\ op = [name |-> "stream_stop", writenow |-> FALSE]
    /\ nops = 1
    /\ wlog = <<Wr(frame_start(FALSE)), AckEv(ParseAck(TRUE, 0))>>

NextStopCalled ==
    \/ Workers
    \/ dev_stream_seq
    \/ stream_start
    \/ stream_stop
    \/ nxslib_channels_enable
    \/ nxslib_start
    \/ stream_thread_stop
    \/ stream_thread_join
    \/ Dispatcher

SpecStopCalled == InitStopCalled /\ [][NextStopCalled]_vars

\* ---------------------------------------------------------------------
\* resynchronisation: the receive worker reads a byte string that holds
\* one frame behind some garbage, split into chunks in every way
\* ---------------------------------------------------------------------
MaxGarbage == 3

\* the ways to split s into at most n chunks, none of them empty
RECURSIVE Splits(_, _)
Splits(s, n) ==
    IF s = <<>> THEN {<<>>}
    ELSE IF n = 0 THEN {}
    ELSE UNION {{<<SubSeq(s, 1, k)>> \o r :
                    r \in Splits(SubSeq(s, k + 1, Len(s)), n - 1)} :
                k \in 1 .. Len(s)}

\* garbage: bytes that are no start of frame, and starts of frame
Garbage == SeqsUpTo({0, SOF}, MaxGarbage)

InitResync ==
    /\ prev_read = <<>>
    /\ \E g \in Garbage : wire \in Splits(g \o WireFrame, MaxChunks)
    /\ rx = <<>>
    /\ InitConnected

NextResync ==
    \/ read_enter
    \/ read_hdr_fill
    \/ read_hdr_find
    \/ read_frame_fill
    \/ read_frame_decode

SpecResync == InitResync /\ [][NextResync]_vars

\* ---------------------------------------------------------------------
\* the frame codec: a frame of every id with a short or a long payload is
\* in flight, its bytes are on the transport in one or two reads, and the
\* receive worker decodes them
\* ---------------------------------------------------------------------
MaxPayload == 2
LongPayload == 250

\* short payloads over a few byte values, and one payload that makes the
\* frame length need its second byte
Payloads ==
    SeqsUpTo({0, SOF, 255}, MaxPayload) \cup
    {[i \in 1 .. LongPayload |-> i % 256]}

\* the bytes in one read, or in two reads cut at one of the first MaxCut
\* places
MaxCut == 7
Cuts(bytes) ==
    {<<bytes>>} \cup
    {<<SubSeq(bytes, 1, k), SubSeq(bytes, k + 1, Len(bytes))>> :
        k \in 1 .. (IF Len(bytes) - 1 < MaxCut THEN Len(bytes) - 1
                    ELSE MaxCut)}

InitCodec ==
    /\ prev_read = <<>>
    /\ \E fid \in 0 .. INVALID, data \in Payloads :
           /\ rx = <<frame_create(fid, data)>>
           /\ wire \in Cuts(SerialFrameBytes(fid, data))
    /\ InitConnected

SpecCodec == InitCodec /\ [][NextResync]_vars

\* ---------------------------------------------------------------------
\* the set frames: channels_write has been called on a connected handler
\* whose buffered vectors hold any of the values ch_enable and ch_divider
\* accept; the handler encodes its requests and the device decodes them
\* ---------------------------------------------------------------------
\* dividers at both ends and on both sides of the middle of a byte
DivValues == {0, 1, 127, 128, 255}

\* the record of a device with divider support and the given vectors
SetDev(en, div) ==
    Device(ChMax, DIVIDER_SUPPORT, 0,
           [i \in 1 .. ChMax |->
               DeviceChannel(i - 1, DevChannel(i - 1).type,
                             DevChannel(i - 1).vdim, en[i], div[i],
                             DevChannel(i - 1).mlen, DevChannel(i - 1).name)])

\* the connected handler and its device, but for the buffered vectors and
\* the position of the caller
InitSetDev ==
    /\ InitReader
    /\ started = TRUE
    /\ d_en \in [1 .. ChMax -> BOOLEAN]
    /\ d_div \in [1 .. ChMax -> {0, 1}]
    /\ dev = SetDev(d_en, d_div)
    /\ q = <<>>
    /\ q_stream = <<>>
    /\ en_now = d_en
    /\ div_now = d_div
    /\ channels_lock = "free"
    /\ recv_thrd = "run"
    /\ recv_stop = FALSE
    /\ connected = TRUE
    /\ stream_started = FALSE
    /\ sub_q = [c \in 1 .. ChMax |-> <<>>]
    /\ subq = <<>>
    /\ ovf_cntr = 0
    /\ disp_thrd = "none"
    /\ disp_stop = FALSE
    /\ disp_pc = "get"
    /\ sdata = <<>>
    /\ didx = 1
    /\ samples = <<>>
    /\ write_padding = 0
    /\ intf_started = TRUE
    /\ tx = <<>>
    /\ rx = <<>>
    /\ d_stream = FALSE
    /\ d_flags = DIVIDER_SUPPORT
    /\ d_rxpadding = 0
    /\ InitExt
    /\ n_stream = 0
    /\ timeout = 4
    /\ cmn = [ok |-> TRUE, chmax |-> ChMax, flags |-> DIVIDER_SUPPORT,
              rxpadding |-> 0]
    /\ chans = dev.channels
    /\ chi = ChMax
    /\ cntr = 0
    /\ ret = ParseAck(TRUE, 0)
    /\ wlog = <<>>
    /\ n_to = 0
    /\ exc = ""

InitSet ==
    /\ InitSetDev
    /\ en_new \in [1 .. ChMax -> BOOLEAN]
    /\ div_new \in [1 .. ChMax -> DivValues]
    /\ pc = "cw_div"
    /\ stack = <<"idle">>
    /\ op = [name |-> "channels_write", writenow |-> FALSE]
    /\ nops = 2

NextSet ==
    \/ nxslib_channels_div
    \/ nxslib_channels_enable
    \/ dev_recv

SpecSet == InitSet /\ [][NextSet]_vars

\* ---------------------------------------------------------------------
\* a streaming session of a connected handler in which STREAM frames
\* with a malformed payload arrive among the well-formed ones
\* ---------------------------------------------------------------------
InitMalformed ==
    /\ prev_read = <<>>
    /\ wire = <<>>
    /\ rx = <<>>
    /\ InitConnected

NextMalformed ==
    \/ Workers
    \/ \E cs \in ChanSets : ch_enable(cs, FALSE)
    \/ dev_stream_seq
    \/ dev_stream_bad
    \/ \E chan \in Chans : stream_sub(chan)
    \/ stream_start
    \/ nxslib_channels_enable
    \/ nxslib_start
    \/ stream_thread
    \/ stream_thread_sample
    \/ stream_thread_put

SpecMalformed == InitMalformed /\ [][NextMalformed]_vars

\* ---------------------------------------------------------------------
\* the channel operations called with any argument on a connected
\* handler: ids inside and outside [0, chmax), alone and in lists, and
\* dividers inside and outside 0..255
\* ---------------------------------------------------------------------
MaxIds == 2
IdLists == SeqsUpTo((0 - 1) .. ChMax, MaxIds) \ {<<>>}
DivArgs == {0 - 1, 0, 255, 256}

InitArgs ==
    /\ InitSetDev
    /\ en_new = en_now
    /\ div_new = div_now
    /\ pc = "idle"
    /\ stack = <<>>
    /\ op = [name |-> "connect", writenow |-> FALSE]
    /\ nops = 1

NextArgs ==
    \/ \E ids \in IdLists, wn \in BOOLEAN : ch_enable_ids(ids, wn)
    \/ \E ids \in IdLists, wn \in BOOLEAN : ch_disable_ids(ids, wn)
    \/ \E ids \in IdLists, d \in DivArgs, wn \in BOOLEAN :
           ch_divider_ids(ids, d, wn)
    \/ nxslib_channels_div
    \/ nxslib_channels_enable
    \/ dev_recv

SpecArgs == InitArgs /\ [][NextArgs]_vars

\* ---------------------------------------------------------------------
\* ThreadCommon on its own: a runner built with an init and a final
\* hook and a target that returns (tests/test_thread.py), driven by one
\* caller through thread_start and thread_stop.  The handler, its
\* workers and the device stand still.
\* ---------------------------------------------------------------------
\* calls of thread_start and thread_stop in one behaviour
MaxCalls == 4
\* invocations of the target by one worker
MaxTargets == 2

RunEv(w, ev) == [w |-> w, ev |-> ev]
\* the events of worker w, in order
RECURSIVE EventsOf(_, _)
EventsOf(log, w) ==
    IF log = <<>> THEN <<>>
    ELSE IF Head(log).w = w THEN <<Head(log).ev>> \o EventsOf(Tail(log), w)
         ELSE EventsOf(Tail(log), w)
Count(s, x) == Cardinality({i \in 1 .. Len(s) : s[i] = x})

\* everything but the runner
RunFrame ==
    UNCHANGED <<commVars, chVars, recvVars, nxsVars, dispVars, wireVars,
                deviceVars, restVars, snaps, queue_lock, locVars, callVars>>

\* thread_start without the test of _thrd
thread_start_always ==
    /\ t_pc = "idle"
    /\ Len(t_calls) < MaxCalls
    /\ t_calls' = Append(t_calls, "start")
    /\ t_stop' = FALSE
    /\ t_workers' = Append(t_workers, "init")
    /\ t_thrd' = Len(t_workers) + 1
    /\ UNCHANGED <<t_log, t_pc>>
    /\ RunFrame

\* ThreadCommon.thread_start
thread_start ==
    /\ t_pc = "idle"
    /\ Len(t_calls) < MaxCalls
    /\ t_calls' = Append(t_calls, "start")
    /\ IF t_thrd = 0
       THEN /\ t_stop' = FALSE
            /\ t_workers' = Append(t_workers, "init")
            /\ t_thrd' = Len(t_workers) + 1
       ELSE UNCHANGED <<t_stop, t_workers, t_thrd>>
    /\ UNCHANGED <<t_log, t_pc>>
    /\ RunFrame

\* thread_stop without its join
thread_stop_nojoin ==
    /\ t_pc = "idle"
    /\ Len(t_calls) < MaxCalls
    /\ t_calls' = Append(t_calls, "stop")
    /\ IF t_thrd = 0
       THEN UNCHANGED <<t_stop, t_thrd>>
       ELSE /\ t_stop' = TRUE
            /\ t_thrd' = 0
    /\ UNCHANGED <<t_workers, t_log, t_pc>>
    /\ RunFrame

\* ThreadCommon.thread_stop up to its join
thread_stop ==
    /\ t_pc = "idle"
    /\ Len(t_calls) < MaxCalls
    /\ t_calls' = Append(t_calls, "stop")
    /\ IF t_thrd = 0
       THEN UNCHANGED <<t_stop, t_pc>>
       ELSE /\ t_stop' = TRUE
            /\ t_pc' = "join"
    /\ UNCHANGED <<t_thrd, t_workers, t_log>>
    /\ RunFrame

\* the join of thread_stop returns (or thread_is_alive was false) once the
\* worker of _thrd has ended; then the handle is cleared
thread_stop_join ==
    /\ t_pc = "join"
    /\ t_workers[t_thrd] = "done"
    /\ t_thrd' = 0
    /\ t_pc' = "idle"
    /\ UNCHANGED <<t_stop, t_workers, t_log, t_calls>>
    /\ RunFrame

\* ThreadCommon._thread_loop: the init hook
thread_loop_init(w) ==
    /\ t_workers[w] = "init"
    /\ t_workers' = [t_workers EXCEPT ![w] = "loop"]
    /\ t_log' = Append(t_log, RunEv(w, "init"))
    /\ UNCHANGED <<t_thrd, t_stop, t_pc, t_calls>>
    /\ RunFrame

\* ThreadCommon._thread_loop: the test of the stop flag
thread_loop_test(w) ==
    /\ t_workers[w] = "loop"
    /\ t_stop \/ Count(EventsOf(t_log, w), "target") < MaxTargets
    /\ t_workers' = [t_workers EXCEPT ![w] = IF t_stop THEN "final"
                                             ELSE "target"]
    /\ UNCHANGED <<t_thrd, t_stop, t_log, t_pc, t_calls>>
    /\ RunFrame

\* ThreadCommon._thread_loop: one call of the target
thread_loop_target(w) ==
    /\ t_workers[w] = "target"
    /\ t_workers' = [t_workers EXCEPT ![w] = "loop"]
    /\ t_log' = Append(t_log, RunEv(w, "target"))
    /\ UNCHANGED <<t_thrd, t_stop, t_pc, t_calls>>
    /\ RunFrame

\* ThreadCommon._thread_loop: the final hook and the end of the worker
thread_loop_final(w) ==
    /\ t_workers[w] = "final"
    /\ t_workers' = [t_workers EXCEPT ![w] = "done"]
    /\ t_log' = Append(t_log, RunEv(w, "final"))
    /\ UNCHANGED <<t_thrd, t_stop, t_pc, t_calls>>
    /\ RunFrame

InitThread == Init

NextThread ==
    \/ thread_start
    \/ thread_stop
    \/ thread_stop_join
    \/ \E w \in 1 .. Len(t_workers) : thread_loop_init(w)
    \/ \E w \in 1 .. Len(t_workers) : thread_loop_test(w)
    \/ \E w \in 1 .. Len(t_workers) : thread_loop_target(w)
    \/ \E w \in 1 .. Len(t_workers) : thread_loop_final(w)

SpecThread == InitThread /\ [][NextThread]_vars

\* ---------------------------------------------------------------------
\* channels_write of one caller thread while a second caller thread
\* changes the buffered configuration.  The operations of the second
\* thread are one critical section of the channels lock each, so each is
\* one step, taken while the lock is free.
\* ---------------------------------------------------------------------
\* values of (en_new, div_new) recorded in one behaviour
MaxSnaps == 3

\* the frame of the operations of the second caller thread
OtherFrame ==
    UNCHANGED <<commVars, en_now, div_now, channels_lock, recvVars, nxsVars,
                dispVars, wireVars, deviceVars, restVars, runVars,
                queue_lock, locVars, callVars>>

\* the second caller thread has changed (en_new, div_new)
Snap ==
    snaps' = IF <<en_new', div_new'>> = <<en_new, div_new>> THEN snaps
             ELSE snaps \cup {<<en_new, div_new>>, <<en_new', div_new'>>}

\* CommHandler.ch_enable (x true) and ch_disable (x false) of the second
\* caller thread
other_ch_enable(cs, x) ==
    /\ dev.set
    /\ channels_lock = "free"
    /\ Cardinality(snaps) < MaxSnaps
    /\ en_new' = SetAt(en_new, cs, x)
    /\ UNCHANGED div_new
    /\ Snap
    /\ OtherFrame

\* CommHandler.ch_divider of the second caller thread
other_ch_divider(cs, d) ==
    /\ dev.set
    /\ channels_lock = "free"
    /\ Cardinality(snaps) < MaxSnaps
    /\ div_new' = SetAt(div_new, cs, d)
    /\ UNCHANGED en_new
    /\ Snap
    /\ OtherFrame

\* channels_write has just been called, with dividers the second caller
\* thread can set as well
InitAtomic ==
    /\ InitSet
    /\ div_new \in [1 .. ChMax -> 0 .. MaxDiv]
    /\ d_div = [i \in 1 .. ChMax |-> 0]

NextAtomic ==
    \/ nxslib_channels_div
    \/ nxslib_channels_enable
    \/ dev_recv
    \/ \E cs \in ChanSets, x \in BOOLEAN : other_ch_enable(cs, x)
    \/ \E cs \in ChanSets, d \in 0 .. MaxDiv : other_ch_divider(cs, d)

SpecAtomic == InitAtomic /\ [][NextAtomic]_vars

\* ---------------------------------------------------------------------
\* the two locks of the handler, with every acquisition and release a
\* step of its own: the dispatcher takes the channels lock in
\* ch_is_enabled and the registry lock for its puts, the caller takes the
\* channels lock in channels_write and the registry lock in stream_sub.
\* The device supports ACK, so that channels_write waits with the
\* channels lock held.
\* ---------------------------------------------------------------------
\* what the steps of the dispatcher between the locks leave alone
DispLockFrame ==
    UNCHANGED <<commVars, en_now, en_new, div_now, div_new, recvVars,
                connected, stream_started, sub_q, ovf_cntr, disp_thrd,
                disp_stop, sdata, wireVars, deviceVars, restVars, runVars,
                snaps, locVars, callVars>>

\* NxscopeHandler._stream_thread, the sample loop: ch_is_enabled takes
\* the channels lock
stream_lock_channels ==
    /\ disp_thrd = "run"
    /\ disp_pc = "iter"
    /\ channels_lock = "free"
    /\ channels_lock' = "disp"
    /\ disp_pc' = "iter_in"
    /\ UNCHANGED <<queue_lock, didx, samples, subq>>
    /\ DispLockFrame

\* the sample loop that keeps the channels lock after its last sample
stream_sample_keep ==
    /\ disp_thrd = "run"
    /\ disp_pc = "iter_in"
    /\ LET data == sdata[didx]
       IN  samples' = IF ch_is_enabled(data.chan)
                      THEN [samples EXCEPT ![data.chan + 1] =
                               Append(@, DNxscopeStream(data.data, data.meta))]
                      ELSE samples
    /\ channels_lock' = IF didx = Len(sdata) THEN channels_lock ELSE "free"
    /\ didx' = didx + 1
    /\ disp_pc' = IF didx = Len(sdata) THEN "put" ELSE "iter"
    /\ UNCHANGED <<queue_lock, subq>>
    /\ DispLockFrame

\* ch_is_enabled reads en_now and releases the channels lock; then the
\* sample is kept or not
stream_sample_locked ==
    /\ disp_thrd = "run"
    /\ disp_pc = "iter_in"
    /\ LET data == sdata[didx]
       IN  samples' = IF ch_is_enabled(data.chan)
                      THEN [samples EXCEPT ![data.chan + 1] =
                               Append(@, DNxscopeStream(data.data, data.meta))]
                      ELSE samples
    /\ channels_lock' = "free"
    /\ didx' = didx + 1
    /\ disp_pc' = IF didx = Len(sdata) THEN "put" ELSE "iter"
    /\ UNCHANGED <<queue_lock, subq>>
    /\ DispLockFrame

\* NxscopeHandler._stream_thread takes the registry lock for its puts
stream_lock_queue ==
    /\ disp_thrd = "run"
    /\ disp_pc = "put"
    /\ queue_lock = "free"
    /\ queue_lock' = "disp"
    /\ disp_pc' = "put_in"
    /\ UNCHANGED <<channels_lock, didx, samples, subq>>
    /\ DispLockFrame

\* the puts of NxscopeHandler._stream_thread and the release of the
\* registry lock
stream_put_locked ==
    /\ disp_thrd = "run"
    /\ disp_pc = "put_in"
    /\ subq' = FanOut(subq, sub_q, samples)
    /\ queue_lock' = "free"
    /\ disp_pc' = "get"
    /\ UNCHANGED <<channels_lock, didx, samples>>
    /\ DispLockFrame

\* what the steps of stream_sub leave alone
SubLockFrame ==
    UNCHANGED <<commVars, chVars, recvVars, connected, stream_started,
                ovf_cntr, dispVars, wireVars, deviceVars, restVars, runVars,
                snaps, timeout, cmn, chans, cntr, ret, stack, op, nops,
                wlog, n_to, exc>>

\* NxscopeHandler.stream_sub is called and creates its queue
stream_sub_call(chan) ==
    /\ pc = "idle"
    /\ connected
    /\ Len(subq) < MaxSubs
    /\ subq' = Append(subq, <<>>)
    /\ chi' = chan
    /\ pc' = "sub"
    /\ UNCHANGED <<queue_lock, sub_q>>
    /\ SubLockFrame

\* NxscopeHandler.stream_sub takes the registry lock
stream_sub_lock ==
    /\ pc = "sub"
    /\ queue_lock = "free"
    /\ queue_lock' = "caller"
    /\ pc' = "sub_in"
    /\ UNCHANGED <<chi, sub_q, subq>>
    /\ SubLockFrame

\* NxscopeHandler.stream_sub registers its queue and releases the lock
stream_sub_locked ==
    /\ pc = "sub_in"
    /\ sub_q' = [sub_q EXCEPT ![chi + 1] = Append(@, Len(subq))]
    /\ queue_lock' = "free"
    /\ pc' = "idle"
    /\ UNCHANGED <<chi, subq>>
    /\ SubLockFrame

\* a streaming session on a device with ACK support: the caller is idle
\* after stream_start, nobody has subscribed yet, and the first frame of
\* the device waits in the stream queue; the operation budget counts from
\* here
InitLocks ==
    /\ InitStreaming(ACK_SUPPORT)
    /\ sub_q = [c \in 1 .. ChMax |-> <<>>]
    /\ subq = <<>>
    /\ tx = <<>>
    /\ pc = "idle"
    /\ stack = <<>>
    /\ op = [name |-> "stream_start", writenow |-> FALSE]
    /\ nops = MaxOps - 1
    /\ wlog = <<Wr(frame_start(TRUE)), AckEv(ParseAck(TRUE, 0)),
                Ev("disp_start", NoFrame)>>

DispatcherLocks ==
    \/ stream_thread
    \/ stream_lock_channels
    \/ stream_sample_locked
    \/ stream_lock_queue
    \/ stream_put_locked

CallerLocks ==
    \/ nxslib_channels_enable
    \/ nxslib_channels_enable_ack
    \/ stream_sub_lock
    \/ stream_sub_locked

NextLocks ==
    \/ Workers
    \/ \E cs \in ChanSets : ch_enable(cs, TRUE)
    \/ \E chan \in Chans : stream_sub_call(chan)
    \/ CallerLocks
    \/ DispatcherLocks

SpecLocks == InitLocks /\ [][NextLocks]_vars

\* some thread that can take a step takes one in the end: the caller
\* inside an operation, the dispatcher, the receive worker or the device
SpecLocksFair ==
    /\ SpecLocks
    /\ WF_vars(CallerLocks \/ DispatcherLocks \/ recv_thread \/ dev_recv)

\* ---------------------------------------------------------------------
\* the shape of the vectors and of the registry: a connected handler and
\* any sequence of channel operations, with valid and invalid ids, of
\* channels_default_cfg and channels_write, and of up to MaxRegs
\* subscriptions, with valid and invalid channels, and any unsubscriptions
\* ---------------------------------------------------------------------
MaxRegs == 2
ShapeIds == {<<id>> : id \in (0 - 1) .. ChMax}

\* a stream_sub that registers the first queue once more
stream_sub_known(chan) ==
    LET k == IF chan < 0 THEN chan + Len(sub_q) + 1 ELSE chan + 1
    IN  /\ pc = "idle"
        /\ connected
        /\ Len(subq) < MaxRegs
        /\ IF k < 1 \/ k > Len(sub_q)
           THEN UNCHANGED <<sub_q, subq>>
           ELSE /\ subq' = Append(subq, <<>>)
                /\ sub_q' = [sub_q EXCEPT ![k] = Append(@, 1)]
        /\ UNCHANGED <<commVars, chVars, recvVars, connected,
                       stream_started, ovf_cntr, dispVars, wireVars,
                       devVars, locVars, callVars>>

\* NxscopeHandler.stream_sub with any channel number: a new queue is
\* appended to self._sub_q[chan], where a negative chan counts from the
\* end and any chan outside [-chmax, chmax) raises IndexError, which
\* leaves the registry as it was
stream_sub_at(chan) ==
    LET k == IF chan < 0 THEN chan + Len(sub_q) + 1 ELSE chan + 1
    IN  /\ pc = "idle"
        /\ connected
        /\ Len(subq) < MaxRegs
        /\ IF k < 1 \/ k > Len(sub_q)
           THEN UNCHANGED <<sub_q, subq>>
           ELSE /\ subq' = Append(subq, <<>>)
                /\ sub_q' = [sub_q EXCEPT ![k] = Append(@, Len(subq) + 1)]
        /\ UNCHANGED <<commVars, chVars, recvVars, connected,
                       stream_started, ovf_cntr, dispVars, wireVars,
                       devVars, locVars, callVars>>

NextShape ==
    \/ \E ids \in ShapeIds, wn \in BOOLEAN : ch_enable_ids(ids, wn)
    \/ \E ids \in ShapeIds, wn \in BOOLEAN : ch_disable_ids(ids, wn)
    \/ \E ids \in ShapeIds, d \in {0, 1}, wn \in BOOLEAN :
           ch_divider_ids(ids, d, wn)
    \/ \E wn \in BOOLEAN : channels_default_cfg(wn)
    \/ channels_write
    \/ nxslib_channels_div
    \/ nxslib_channels_enable
    \/ dev_recv
    \/ \E chan \in (0 - 1) .. ChMax : stream_sub_at(chan)
    \/ \E que \in 1 .. MaxRegs : stream_unsub(que)

SpecShape == InitArgs /\ [][NextShape]_vars

\* ---------------------------------------------------------------------
\* the decoders on their own: frame_decode and the recv_handle of the
\* device are called with byte strings that start with a header of any
\* declared length up to MaxFlen, of a frame that is whole, cut short,
\* or followed by more bytes, with and without a CRC that fits
\* ---------------------------------------------------------------------
MaxFlen == 8
MaxDecodes == 1
foot_len == 2

\* a header that declares flen bytes, then rest, then the CRC of it all
WithCrc(flen, fid, rest) ==
    LET body == <<SOF, flen % 256, flen \div 256, fid>> \o rest
        crc == Crc16(body, 0)
    IN  body \o <<crc \div 256, crc % 256>>

DecInputs ==
    LET rests == SeqsUpTo({0, SOF}, 2)
        hdrs == {<<SOF, flen % 256, flen \div 256, fid>> :
                    flen \in 0 .. MaxFlen, fid \in {CMNINFO, INVALID + 1}}
    IN  {h \o r : h \in hdrs, r \in rests}
        \cup {WithCrc(flen, CMNINFO, r) : flen \in 0 .. MaxFlen, r \in rests}
        \cup {<<0>> \o WithCrc(flen, ACK, <<>>) : flen \in 0 .. MaxFlen}
        \cup {<<>>, <<0>>, <<SOF>>}

\* ParseRecv.recv_handle: the callback it calls, if any
recv_handle(data) ==
    LET none == [called |-> FALSE, fid |-> 0, data |-> <<>>]
        hdr_start == hdr_find(data)
        crop == Slice(data, hdr_start, Len(data))
        hdr == hdr_decode(crop)
    IN  IF hdr_start < 0 THEN none
        ELSE IF Len(data) - hdr_start < hdr_len + foot_len THEN none
        ELSE IF hdr.err THEN none
        ELSE IF ~foot_validate(Slice(crop, 0, hdr.flen)) THEN none
        ELSE [called |-> TRUE, fid |-> hdr.fid,
              data |-> Slice(crop, hdr_len, hdr.flen - foot_len)]

DecFrame ==
    UNCHANGED <<commVars, chVars, recvVars, nxsVars, dispVars, wireVars,
                deviceVars, otherVars, runVars, snaps, queue_lock, locVars,
                callVars>>

\* a call of SerialFrame.frame_decode
frame_decode_call(data) ==
    /\ Len(dec_log) < MaxDecodes
    /\ dec_log' = Append(dec_log, [op |-> "frame_decode", arg |-> data,
                                   ret |-> frame_decode(data)])
    /\ DecFrame

\* a call of ParseRecv.recv_handle
recv_handle_call(data) ==
    /\ Len(dec_log) < MaxDecodes
    /\ dec_log' = Append(dec_log, [op |-> "recv_handle", arg |-> data,
                                   ret |-> recv_handle(data)])
    /\ DecFrame

NextDecode ==
    \/ \E data \in DecInputs : frame_decode_call(data)
    \/ \E data \in DecInputs : recv_handle_call(data)

SpecDecode == Init /\ [][NextDecode]_vars

\* ---------------------------------------------------------------------
\* two caller threads in stream_start: the handler is connected and not
\* streaming, on the device without ACK and divider support, where
\* channels_write is the ENABLE request alone and _get_ack answers at
\* once.  The second thread takes the steps of stream_start one by one.
\* ---------------------------------------------------------------------
OtherStartFrame ==
    UNCHANGED <<started, q, q_stream, en_new, div_now, div_new, channels_lock,
                recvVars, connected, sub_q, subq, disp_pc, sdata, didx,
                samples, write_padding, intf_started, rx, deviceVars, runVars,
                snaps, queue_lock, dec_log, locVars, callVars>>

\* NxscopeHandler.stream_start of the second thread: the test of
\* _stream_started
other_stream_start ==
    /\ o_pc = "idle"
    /\ connected
    /\ dev.set
    /\ o_pc' = IF stream_started THEN "done" ELSE "cw_en"
    /\ UNCHANGED <<tx, en_now, dev, ovf_cntr, disp_thrd, disp_stop,
                   stream_started, o_log>>
    /\ OtherStartFrame

\* channels_write of the second thread: _nxslib_channels_enable under the
\* channels lock, with the commit
other_channels_enable ==
    /\ o_pc = "cw_en"
    /\ channels_lock = "free"
    /\ AckImmediate
    /\ LET fwrite == frame_enable(SetRequest(en_new, en_now), dev.chmax)
       IN  /\ tx' = Append(tx, fwrite)
           /\ o_log' = Append(o_log, Wr(fwrite))
    /\ en_now' = en_new
    /\ dev' = en_channels_update(dev, en_new)
    /\ o_pc' = "ss_start"
    /\ UNCHANGED <<ovf_cntr, disp_thrd, disp_stop, stream_started>>
    /\ OtherStartFrame

\* _nxslib_start of the second thread: _reset_stats and the START request
other_nxslib_start ==
    /\ o_pc = "ss_start"
    /\ AckImmediate
    /\ ovf_cntr' = 0
    /\ tx' = Append(tx, frame_start(TRUE))
    /\ o_log' = Append(o_log, Wr(frame_start(TRUE)))
    /\ o_pc' = "thrd"
    /\ UNCHANGED <<en_now, dev, disp_thrd, disp_stop, stream_started>>
    /\ OtherStartFrame

\* ThreadCommon.thread_start of the second thread: the test of _thrd
other_thread_start ==
    /\ o_pc = "thrd"
    /\ o_pc' = IF disp_thrd = "none" THEN "thrd_new" ELSE "flag"
    /\ UNCHANGED <<tx, en_now, dev, ovf_cntr, disp_thrd, disp_stop,
                   stream_started, o_log>>
    /\ OtherStartFrame

\* ThreadCommon.thread_start of the second thread: _stop_clear and the
\* new worker, which replaces whatever _thrd holds by now
other_thread_new ==
    /\ o_pc = "thrd_new"
    /\ disp_thrd' = "run"
    /\ disp_stop' = FALSE
    /\ o_log' = Append(o_log, Ev("disp_start", NoFrame))
    /\ o_pc' = "flag"
    /\ UNCHANGED <<tx, en_now, dev, ovf_cntr, stream_started>>
    /\ OtherStartFrame

\* the end of NxscopeHandler.stream_start of the second thread
other_stream_started ==
    /\ o_pc = "flag"
    /\ stream_started' = TRUE
    /\ o_pc' = "done"
    /\ UNCHANGED <<tx, en_now, dev, ovf_cntr, disp_thrd, disp_stop, o_log>>
    /\ OtherStartFrame

InitRace == InitSession /\ d_flags = 0

OtherStart ==
    \/ other_stream_start
    \/ other_channels_enable
    \/ other_nxslib_start
    \/ other_thread_start
    \/ other_thread_new
    \/ other_stream_started

NextRace ==
    \/ dev_recv
    \/ stream_start
    \/ nxslib_channels_enable
    \/ nxslib_start
    \/ OtherStart

SpecRace == InitRace /\ [][NextRace]_vars

\* ---------------------------------------------------------------------
\* properties
\* ---------------------------------------------------------------------
\* the receive worker takes a frame off the transport
RecvTakes == rx # <<>> /\ rx' = Tail(rx)

\* C1: every frame the receive worker reads goes to exactly one place: a
\* STREAM frame to the stream queue, an ACK frame that arrives while the
\* device record is None nowhere, every other frame to the control queue;
\* the control queue never holds a STREAM frame and the stream queue
\* holds only STREAM frames.
C1_RecvRouting ==
    /\ [](/\ \A i \in 1 .. Len(q) : q[i].fid # STREAM
          /\ \A i \in 1 .. Len(q_stream) : q_stream[i].fid = STREAM)
    /\ [][RecvTakes =>
            LET frame == Head(rx)
            IN  IF frame.fid = STREAM
                THEN q_stream' = Append(q_stream, frame) /\ q' = q
                ELSE IF frame.fid = ACK /\ ~dev.set
                     THEN q' = q /\ q_stream' = q_stream
                     ELSE q' = Append(q, frame) /\ q_stream' = q_stream]_vars

\* C1 witness: with the device record populated an ACK sits in the
\* control queue while a STREAM frame sits in the stream queue
C1_Witness ==
    /\ dev.set
    /\ \E i \in 1 .. Len(q) : q[i].fid = ACK
    /\ q_stream # <<>>
\* the samples of channel c in the frame being dispatched, in payload order
FrameSamples(c) ==
    LET sel == SelectSeq(sdata, LAMBDA s : s.chan = c)
    IN  [i \in 1 .. Len(sel) |-> DNxscopeStream(sel[i].data, sel[i].meta)]

\* the dispatcher delivers the batches of the frame it has examined
PutStep == disp_thrd = "run" /\ disp_pc = "put" /\ disp_pc' = "get"

\* C2: for every STREAM frame the dispatcher decodes and every channel c,
\* each queue registered for c when the batches are delivered receives
\* exactly one batch holding all of c's samples of the frame in payload
\* order, or nothing (the frame has no sample of c, or c is disabled);
\* whatever value en_now[c] is read at, a queue never receives a batch
\* holding only some of c's samples.
C2_FanOut ==
    [][PutStep =>
        \A c \in 1 .. Len(sub_q) : \A k \in Range(sub_q[c]) :
            \/ subq'[k] = subq[k]
            \/ /\ FrameSamples(c - 1) # <<>>
               /\ subq'[k] = Append(subq[k], FrameSamples(c - 1))]_vars
\* the steps of channels_write that write the DIV and the ENABLE frame
DivWrites == pc = "cw_div" /\ pc' # "cw_div"
EnWrites == pc = "cw_en" /\ pc' # "cw_en"

\* the enable vector as byte values
EnBytes(v) == [i \in 1 .. Len(v) |-> IF v[i] THEN 1 ELSE 0]

\* frame f is the set-frame for the byte vectors new and now that differ
\* at one index at least: SINGLE with the index and its new value, ALL
\* with the common value, or BULK with the chmax values of new
SetFrameOk(f, fid, new, now) ==
    LET D == {i \in 1 .. Len(now) : new[i] # now[i]}
    IN  /\ f.fid = fid
        /\ IF Cardinality(D) = 1
           THEN \E k \in D : f.data = <<SINGLE, k - 1, new[k]>>
           ELSE IF \A i, j \in 1 .. Len(new) : new[i] = new[j]
                THEN /\ Len(f.data) = 3
                     /\ f.data[1] = ALL
                     /\ f.data[3] = new[1]
                ELSE /\ Len(f.data) = 2 + dev.chmax
                     /\ f.data[1] = BULK
                     /\ \A i \in 1 .. dev.chmax : f.data[2 + i] = new[i]

\* number of frames with id fid the operation in progress has written
Written(fid) ==
    Cardinality({i \in 1 .. Len(wlog) :
                    wlog[i].ev = "write" /\ wlog[i].frame.fid = fid})

\* C3: for the enable and for the divider vector, when channels_write
\* finds new and now different at exactly one index k it writes exactly
\* one SINGLE frame carrying k and new[k]; when they differ at more than
\* one index it writes exactly one ALL frame if all entries of new are
\* equal and exactly one BULK frame with the chmax values of new
\* otherwise.  No operation writes a second ENABLE or DIV frame.
C3_CommitFrame ==
    /\ [](Written(ENABLE) <= 1 /\ Written(DIV) <= 1)
    /\ [][(EnWrites /\ en_new # en_now) =>
            \E f \in {frame_create(ENABLE, d) :
                         d \in {tx'[Len(tx')].data}} :
                /\ tx' = Append(tx, f)
                /\ SetFrameOk(f, ENABLE, EnBytes(en_new), EnBytes(en_now))]_vars
    /\ [][(DivWrites /\ div_new # div_now) =>
            \E f \in {frame_create(DIV, d) :
                         d \in {tx'[Len(tx')].data}} :
                /\ tx' = Append(tx, f)
                /\ SetFrameOk(f, DIV, div_new, div_now)]_vars

\* C3 witness: one channels_write has written a BULK frame for the
\* divider vector and, after it, a frame for the enable vector
C3_Witness ==
    /\ pc = "idle"
    /\ \E i, j \in 1 .. Len(wlog) :
           /\ i < j
           /\ wlog[i].ev = "write" /\ wlog[i].frame.fid = DIV
           /\ wlog[i].frame.data[1] = BULK
           /\ wlog[j].ev = "write" /\ wlog[j].frame.fid = ENABLE
\* C4: channels_write writes no frame for a vector (enable or divider)
\* whose new snapshot equals its now snapshot.
C4_NoFrameWhenEqual ==
    /\ [][(EnWrites /\ en_new = en_now) => tx' = tx]_vars
    /\ [][(DivWrites /\ div_new = div_now) => tx' = tx]_vars

\* every call of _get_ack of the operation in progress returned success
AcksOk == \A i \in 1 .. Len(wlog) : wlog[i].ev # "ack_err"

\* the operation in progress or last completed ran channels_write
RanChannelsWrite == op.name = "channels_write" \/ op.writenow

\* C5: after a channels_write in which every frame was acknowledged with
\* retcode 0, or on a device without ACK_SUPPORT, en_now equals en_new,
\* div_now equals div_new if the device has DIVIDER_SUPPORT, and the en
\* and div fields of the device record equal en_now and div_now; without
\* ACK_SUPPORT the commit takes no frame from the control queue.
C5_CommitApplied ==
    /\ []((pc = "idle" /\ dev.set /\ RanChannelsWrite /\ AcksOk) =>
            /\ en_now = en_new
            /\ div_supported(dev) => div_now = div_new
            /\ \A i \in 1 .. dev.chmax :
                   /\ dev.channels[i].en = en_now[i]
                   /\ dev.channels[i].div = div_now[i])
    /\ [][((EnWrites \/ DivWrites) /\ (dev.flags \div 2) % 2 = 0) =>
            /\ q' = q
            /\ EnWrites => en_now' = en_new
            /\ DivWrites => div_now' = div_new]_vars

\* C5 witness: on a device with ACK_SUPPORT a channels_write has written
\* a DIV frame and a SINGLE ENABLE frame and both were acknowledged
C5_Witness ==
    /\ pc = "idle" /\ dev.set /\ RanChannelsWrite /\ AcksOk
    /\ (dev.flags \div 2) % 2 = 1
    /\ Written(DIV) = 1
    /\ \E i \in 1 .. Len(wlog) :
           /\ wlog[i].ev = "write" /\ wlog[i].frame.fid = ENABLE
           /\ wlog[i].frame.data[1] = SINGLE

\* the dequeue of _get_ack finds no acknowledge with retcode 0: the
\* control queue is empty (timeout) or its head is no ACK of retcode 0
AckFails == q = <<>> \/ Head(q) # frame_create(ACK, <<0, 0, 0, 0>>)

\* the steps of channels_write that return from the wait for the ACK
EnAckStep == pc = "cw_en_wait" /\ pc' # "cw_en_wait"
DivAckStep == pc = "cw_div_wait" /\ pc' # "cw_div_wait"

\* the device has taken every frame with id fid that the host has written
DeviceTook(fid) == \A i \in 1 .. Len(tx) : tx[i].fid # fid

\* C6: if the ACK awaited for an ENABLE (DIV) frame times out or carries
\* a nonzero retcode, en_now (div_now) and the en (div) fields of the
\* device record stay as they are and en_new (div_new) keeps the pending
\* values; after connect, en_now and div_now change only by a commit the
\* device confirmed: the ACK of retcode 0 that the commit rests on
\* answers a frame the device has taken (on a device without ACK_SUPPORT
\* the confirmation is assumed).
C6_FailedAckKeepsNow ==
    /\ [][(EnAckStep /\ AckFails) =>
            UNCHANGED <<en_now, en_new, div_now, div_new, dev>>]_vars
    /\ [][(DivAckStep /\ AckFails) =>
            UNCHANGED <<en_now, en_new, div_now, div_new, dev>>]_vars
    /\ [][(dev.set /\ en_now' # en_now) =>
            /\ en_now' = en_new
            /\ \/ EnAckStep /\ ~AckFails /\ DeviceTook(ENABLE)
               \/ EnWrites /\ (dev.flags \div 2) % 2 = 0]_vars
    /\ [][(dev.set /\ div_now' # div_now) =>
            /\ div_now' = div_new
            /\ \/ DivAckStep /\ ~AckFails /\ DeviceTook(DIV)
               \/ DivWrites /\ (dev.flags \div 2) % 2 = 0]_vars

\* C7: within one channels_write the DIV frame, if any, is written and
\* its ACK awaited before the ENABLE frame is written; on a device
\* without DIVIDER_SUPPORT no DIV frame is ever written and div_now keeps
\* its connect-time values.
C7_DivBeforeEnable ==
    /\ [](\A i, j \in 1 .. Len(wlog) :
            (/\ wlog[i].ev = "write" /\ wlog[i].frame.fid = DIV
             /\ wlog[j].ev = "write" /\ wlog[j].frame.fid = ENABLE) =>
                /\ i < j
                /\ \E m \in (i + 1) .. (j - 1) :
                       wlog[m].ev \in {"ack_ok", "ack_err"})
    /\ []((dev.set /\ dev.flags % 2 = 0) =>
            /\ Written(DIV) = 0
            /\ \A i \in 1 .. Len(tx) : tx[i].fid # DIV)
    /\ [][(dev.set /\ dev.flags % 2 = 0) => div_now' = div_now]_vars

\* C7 witness: on a device without DIVIDER_SUPPORT a channels_write has
\* written its ENABLE frame while divider values were pending
C7_Witness ==
    /\ pc = "idle" /\ dev.set /\ dev.flags % 2 = 0
    /\ RanChannelsWrite
    /\ Written(ENABLE) = 1
    /\ div_new # div_now

\* the buffered channel operations
BufferedOps == {"ch_enable", "ch_disable", "ch_divider", "ch_enable_all",
                "ch_disable_all", "channels_default_cfg"}

\* a buffered channel operation is invoked without write-now
BufferedCall ==
    nops' = nops + 1 /\ op'.name \in BufferedOps /\ ~op'.writenow

\* C8: ch_enable, ch_disable, ch_divider, ch_enable_all, ch_disable_all
\* and channels_default_cfg without write-now change only the new
\* snapshots: they write no frame and leave en_now, div_now and the
\* device record as they are, so ch_is_enabled and ch_div_get keep
\* returning the committed values until a channels_write commits.
C8_BufferedOnly ==
    /\ [][BufferedCall =>
            /\ UNCHANGED <<tx, rx, q, en_now, div_now, dev, d_en, d_div>>
            /\ \A c \in 0 .. (dev.chmax - 1) :
                   /\ ch_is_enabled(c)' = ch_is_enabled(c)
                   /\ ch_div_get(c)' = ch_div_get(c)
            /\ pc' = "idle"]_vars
    /\ [][(dev.set /\ (en_now' # en_now \/ div_now' # div_now)) =>
            (EnWrites \/ EnAckStep \/ DivWrites \/ DivAckStep)]_vars

\* C8 witness: after ch_divider without write-now both new snapshots
\* differ from the committed ones
C8_Witness ==
    /\ pc = "idle" /\ dev.set
    /\ op.name = "ch_divider" /\ ~op.writenow
    /\ div_new # div_now
    /\ en_new # en_now
\* the frames the operation in progress has written, in order
Writes ==
    LET w == SelectSeq(wlog, LAMBDA e : e.ev = "write")
    IN  [i \in 1 .. Len(w) |-> w[i].frame]

\* place of a frame in the order of the writes of connect
ConnectRank(f) ==
    IF f = frame_create(START, <<0>>) THEN 0
    ELSE IF f.fid = CMNINFO THEN 1
         ELSE IF f.fid = CHINFO THEN 2 ELSE 3

\* C9: during connect the transport is started before the receive
\* worker; the host writes a START(false) request first, then CMNINFO
\* requests, then CHINFO requests for the channels in increasing order;
\* CHINFO(i+1) is never written before a valid reply to CHINFO(i) has
\* been taken from the control queue; no ENABLE, DIV or START(true)
\* frame is written.
C9_ConnectOrder ==
    (op.name = "connect" /\ wlog # <<>>) =>
        /\ wlog[1].ev = "intf_start"
        /\ wlog[2].ev = "recv_start"
        /\ wlog[3] = Wr(frame_create(START, <<0>>))
        /\ \A i \in 1 .. Len(Writes) : ConnectRank(Writes[i]) < 3
        /\ \A i, j \in 1 .. Len(Writes) :
               i < j =>
                  /\ ConnectRank(Writes[i]) <= ConnectRank(Writes[j])
                  /\ (Writes[i].fid = CHINFO /\ Writes[j].fid = CHINFO) =>
                         Writes[i].data[1] <= Writes[j].data[1]
        /\ \A i \in 1 .. Len(Writes) :
               (Writes[i].fid = CHINFO /\ Writes[i].data[1] > 0) =>
                  LET k == Writes[i].data[1]
                  IN  /\ Len(chans) >= k
                      /\ chans[k].name = DevChannel(k - 1).name

\* C10: when connect succeeds, for every timing of the replies, channel
\* record i carries the type, vdim, mlen, name, en and div the device
\* reported for channel i, and en_now[i] = en_new[i] and
\* div_now[i] = div_new[i] equal the reported en and div.
C10_ChannelRecords ==
    (op.name = "connect" /\ pc = "idle" /\ connected /\ dev.set) =>
        /\ dev.chmax = Len(d_en)
        /\ Len(dev.channels) = dev.chmax
        /\ \A i \in 1 .. dev.chmax :
               /\ dev.channels[i].chan = i - 1
               /\ dev.channels[i].type = DevChannel(i - 1).type
               /\ dev.channels[i].vdim = DevChannel(i - 1).vdim
               /\ dev.channels[i].mlen = DevChannel(i - 1).mlen
               /\ dev.channels[i].name = DevChannel(i - 1).name
               /\ dev.channels[i].en = d_en[i]
               /\ dev.channels[i].div = d_div[i]
               /\ en_now[i] = d_en[i] /\ en_new[i] = d_en[i]
               /\ div_now[i] = d_div[i] /\ div_new[i] = d_div[i]

\* C11: connect always terminates: once invoked it returns, with the
\* device record populated or with a TimeoutError, whatever the device
\* does: also when the device leaves CMNINFO or CHINFO requests
\* unanswered or streams during the handshake.
C11_ConnectTerminates ==
    (op.name = "connect" /\ pc # "idle") ~> (pc = "idle")

\* C12: against a device that delivers no valid CMNINFO reply connect
\* writes at most 5 CMNINFO requests, and when it fails with
\* TimeoutError it has written exactly 5.
C12_CmninfoBudget ==
    op.name = "connect" =>
        /\ Written(CMNINFO) <= 5
        /\ exc = "TimeoutError" => Written(CMNINFO) = 5

\* C13: when connect has failed with TimeoutError the handler is as it
\* was before the call: no device record, not started, not connected,
\* and the receive worker and the transport the attempt started are no
\* longer running.
C13_FailedConnectClean ==
    (op.name = "connect" /\ pc = "idle" /\ exc = "TimeoutError") =>
        /\ ~dev.set
        /\ ~started
        /\ ~connected
        /\ recv_thrd # "run"
        /\ ~intf_started

\* C14: the lifecycle is a cycle: when disconnect has returned the
\* handler is Disconnected (not started, no device record), and every
\* connect that returns without an exception, the first or a later one,
\* leaves the handler started and connected with a populated device
\* record.
C14_LifecycleCycle ==
    /\ (op.name = "disconnect" /\ pc = "idle") => (~started /\ ~dev.set)
    /\ (op.name = "connect" /\ pc = "idle" /\ exc = "") =>
           /\ started
           /\ connected
           /\ dev.set
           /\ Len(dev.channels) = dev.chmax

\* a lifecycle call that finds the handler already in the state it asks
\* for: connect while Connected, disconnect while Disconnected,
\* stream_start while Streaming, stream_stop while Idle
ReentrantCall ==
    /\ nops' = nops + 1
    /\ \/ op'.name = "connect" /\ connected /\ started
       \/ op'.name = "disconnect" /\ ~started
       \/ op'.name = "stream_start" /\ stream_started
       \/ op'.name = "stream_stop" /\ ~stream_started

\* C15: re-entrant lifecycle calls are no-ops: they return at once,
\* write no frame, start and stop no worker and leave the device record,
\* the channel state, the subscriber registry and the lifecycle flags as
\* they are.
C15_ReentrantNoOp ==
    [][ReentrantCall =>
        /\ pc' = "idle"
        /\ UNCHANGED <<tx, rx, q, q_stream, intf_started>>
        /\ UNCHANGED <<recv_thrd, recv_stop, disp_thrd, disp_stop>>
        /\ UNCHANGED <<dev, en_now, en_new, div_now, div_new>>
        /\ UNCHANGED <<sub_q, subq>>
        /\ UNCHANGED <<started, connected, stream_started>>]_vars

\* C15 witness: stream_start was called while the stream was running and
\* has returned without doing anything
C15_Witness ==
    /\ op.name = "stream_start" /\ pc = "idle" /\ wlog = <<>>
    /\ stream_started /\ disp_thrd = "run"

\* the disconnect that has returned found the handler started: it has
\* stopped the transport
StoppedTransport == \E i \in 1 .. Len(wlog) : wlog[i].ev = "intf_stop"

C17_DisconnectReturns ==
    /\ (recv_stop /\ recv_thrd = "run") ~> (recv_thrd # "run")
    /\ (op.name = "disconnect" /\ pc # "idle") ~> (pc = "idle")

\* the entries of the log of the operation in progress that are writes of a
\* START request with the start flag set
StartWrites ==
    {i \in 1 .. Len(wlog) : wlog[i] = Wr(frame_start(TRUE))}

\* the entries that are writes of a DIV or an ENABLE frame
CfgWrites ==
    {i \in 1 .. Len(wlog) :
        wlog[i].ev = "write" /\ wlog[i].frame.fid \in {DIV, ENABLE}}

\* C18: within one stream_start of a handler that is not streaming, the
\* DIV frame (on a device with divider support) and the ENABLE frame of
\* the buffered configuration are written, and the call of _get_ack of
\* each has returned, before the START(true) request is written; no
\* configuration frame follows the START request, and the dispatcher is
\* launched only after the START request was written.
C18_ConfigBeforeStart ==
    op.name = "stream_start" =>
        /\ \A i \in StartWrites :
              /\ Written(ENABLE) = 1
              /\ Written(DIV) = (IF div_supported(dev) THEN 1 ELSE 0)
              /\ \A j \in CfgWrites :
                    j + 1 < i /\ wlog[j + 1].ev \in {"ack_ok", "ack_err"}
        /\ \A k \in 1 .. Len(wlog) :
              wlog[k].ev = "disp_start" => \E i \in StartWrites : i < k
        /\ (disp_thrd = "run" /\ wlog # <<>>) => StartWrites # {}

\* a stream_start has written a DIV, an ENABLE and the START frame, waited
\* for their acknowledgements and launched the dispatcher, with a buffered
\* configuration that differs from the committed one
C18_Witness ==
    /\ op.name = "stream_start"
    /\ pc = "idle"
    /\ Written(DIV) = 1
    /\ Written(ENABLE) = 1
    /\ StartWrites # {}
    /\ wlog[Len(wlog)].ev = "disp_start"
    /\ ~AckImmediate
    /\ div_now # [i \in 1 .. ChMax |-> 0]
    /\ disp_thrd = "run"

\* the STREAM frame a batch was decoded from, by the order of arrival: the
\* values of the samples of the n-th frame start at (n - 1) * MaxSamples + 1
FrameOf(batch) == (batch[1].data[1] - 1) \div MaxSamples + 1

\* C19: every subscriber queue holds its batches in the order in which
\* their STREAM frames arrived from the transport: a batch of an earlier
\* frame is enqueued before a batch of a later frame.
C19_BatchOrder ==
    \A k \in 1 .. Len(subq) : \A i, j \in 1 .. Len(subq[k]) :
        i < j => FrameOf(subq[k][i]) < FrameOf(subq[k][j])

\* a queue holds a batch of the first and a batch of the second frame
C19_Witness ==
    \E k \in 1 .. Len(subq) :
        /\ Len(subq[k]) = 2
        /\ FrameOf(subq[k][1]) = 1
        /\ FrameOf(subq[k][2]) = 2

\* queue k is registered for some channel
Registered(reg, k) == \E c \in 1 .. Len(reg) : k \in Range(reg[c])

\* C20: for any interleaving of stream_sub and stream_unsub with the
\* dispatcher: a queue that stream_unsub has removed from the registry is
\* never registered again and no batch is enqueued to it any more (a
\* queue changes only when the dispatcher delivers, and only while it is
\* registered); and from the return of stream_sub(c) on, every delivery
\* of a frame in which the dispatcher found samples of c with c enabled
\* enqueues the batch of these samples to the queue.
C20_SubUnsub ==
    [][/\ \A k \in 1 .. Len(subq) :
             /\ (~Registered(sub_q, k)) => (~Registered(sub_q', k))
             /\ subq'[k] # subq[k] => (PutStep /\ Registered(sub_q, k))
       /\ PutStep =>
             \A c \in 1 .. Len(sub_q) : \A k \in Range(sub_q[c]) :
                 samples[c] # <<>> =>
                     subq'[k] = Append(subq[k], samples[c])]_vars

\* the queue received the batch of the first frame while it was
\* subscribed, stream_unsub has returned, and the dispatcher has since
\* delivered the second frame, with samples of an enabled channel, without
\* the queue
C20_Witness ==
    /\ Len(subq) = 1
    /\ ~Registered(sub_q, 1)
    /\ Len(subq[1]) = 1
    /\ FrameOf(subq[1][1]) = 1
    /\ disp_pc = "get"
    /\ \E c \in 1 .. Len(samples) :
           samples[c] # <<>> /\ FrameOf(samples[c]) = 2

\* the list s without the entries equal to x
Without(s, x) == SelectSeq(s, LAMBDA y : y # x)

\* C21: stream_unsub(q) removes q from the channel list that holds it and
\* leaves every other subscription, and their order, as it was; a second
\* stream_unsub(q) and the stream_unsub of a queue that is not subscribed
\* change nothing.  Every step that shortens the registry is one such
\* removal, and it raises nothing.
C21_UnsubIdempotent ==
    /\ [](\A que \in 1 .. MaxQueues + 1 :
             /\ Unsub(sub_q, que) = [c \in 1 .. Len(sub_q) |->
                                        Without(sub_q[c], que)]
             /\ Unsub(Unsub(sub_q, que), que) = Unsub(sub_q, que)
             /\ (~Registered(sub_q, que)) => Unsub(sub_q, que) = sub_q)
    /\ [][(sub_q' # sub_q /\ subq' = subq /\ sub_q # <<>>) =>
             /\ \E que \in 1 .. Len(subq) :
                   /\ Registered(sub_q, que)
                   /\ sub_q' = [c \in 1 .. Len(sub_q) |->
                                   Without(sub_q[c], que)]
             /\ exc' = exc]_vars

\* three queues were subscribed to one channel and the second one was
\* unsubscribed: the first and the third are still registered, in order
C21_Witness ==
    /\ Len(subq) = 3
    /\ \E c \in 1 .. Len(sub_q) : sub_q[c] = <<1, 3>>

\* the dispatcher takes a frame off the stream queue and decodes it
DispatchTake == disp_thrd = "run" /\ disp_pc = "get" /\ disp_pc' # "get"

\* the caller sends START: the stream enters Starting
StartSent == pc = "ss_start" /\ pc' # "ss_start"

\* C22: the overflow counter goes up by exactly one when the dispatcher
\* processes a STREAM frame whose flags byte has bit 0 set, with or
\* without samples in the frame, is set to 0 by each stream start, and
\* is changed by no other step; so it always equals the number of such
\* frames processed since the latest stream start
C22_OverflowCount ==
    [][/\ DispatchTake =>
              ovf_cntr' = ovf_cntr + (Head(q_stream).data[1] % 2)
       /\ StartSent => ovf_cntr' = 0
       /\ (~DispatchTake /\ ~StartSent) => ovf_cntr' = ovf_cntr]_vars

\* a new session has reset the count of the session before, and an
\* OVERFLOW frame that carries no sample has been counted
C22_Witness ==
    /\ stream_started
    /\ ovf_cntr = 1
    /\ n_stream = 1
    /\ sdata = <<>>
    /\ disp_pc = "put"
    /\ wlog # <<>>

\* C23: a STREAM frame that is in the stream queue when stream_stop is
\* called is discarded: no subscriber queue ever holds a batch of its
\* samples, neither while stream_stop runs nor after a later stream_start
\* (the frame queued at the call is the first frame of the device)
C23_QueuedDiscarded ==
    \A k \in 1 .. Len(subq) : \A i \in 1 .. Len(subq[k]) :
        FrameOf(subq[k][i]) # 1

\* the receive worker has consumed the byte string: the transport has no
\* byte left and the worker holds none back
Consumed == wire = <<>> /\ rd_pc = "loop" /\ prev_read = <<>>

\* C24: once the receive pipeline has consumed a byte string that holds
\* one well-formed frame behind garbage, in whatever chunks the transport
\* delivered it, that frame has been decoded and queued exactly once
C24_Resync ==
    Consumed => q = <<frame_create(CMNINFO, <<>>)>>

\* the bytes of the frame in flight, as long as no read has taken any
OnWire == IF Len(wire) = 1 /\ rd_pc = "loop" THEN wire[1] ELSE <<>>

\* C25: frame_create emits SOF 0x55, the little-endian length 6 + |p|,
\* the id, p and the big-endian CRC-16/XMODEM of all that, so that the CRC
\* over the whole frame is zero (the CRC of "123456789" is 0x31C3 = 12739);
\* and decoding the bytes of a frame of a known id with payload p returns
\* the id and p without error
C25_FrameRoundTrip ==
    /\ Crc16(<<49, 50, 51, 52, 53, 54, 55, 56, 57>>, 0) = 12739
    /\ OnWire # <<>> =>
           \E b \in {OnWire} : \E n \in {Len(OnWire)} :
               /\ n = 6 + Len(rx[1].data)
               /\ b[1] = 85
               /\ b[2] = n % 256 /\ b[3] = n \div 256
               /\ b[4] = rx[1].fid
               /\ SubSeq(b, 5, n - 2) = rx[1].data
               /\ b[n - 1] * 256 + b[n] = Crc16(SubSeq(b, 1, n - 2), 0)
               /\ Crc16(b, 0) = 0
    /\ Consumed => q \o q_stream = rx

\* a frame whose length needs its second byte has been read in two
\* chunks and queued
C25_Witness ==
    /\ Consumed
    /\ rd_tick = 0
    /\ Len(q) = 1
    /\ Len(q[1].data) >= LongPayload

\* C26: the vector the device decodes from the payload of frame_enable /
\* frame_div is the vector the request was built from; a SINGLE request
\* (k, x) decodes to the device's current vector with index k replaced by
\* x.  Here the requests are those of channels_write, built from en_new
\* and div_new against a device whose current vectors are en_now and
\* div_now, so either way the device ends with en_new and div_new.
C26_SetRoundTrip ==
    (pc = "idle" /\ tx = <<>>) => (d_en = en_new /\ d_div = div_new)

\* a request of the operation in progress timed out or was answered by an
\* ACK with a nonzero retcode
AckFailed == \E i \in 1 .. Len(wlog) : wlog[i].ev = "ack_err"

\* C27: when a request sent inside channels_write, stream_start or
\* stream_stop times out or is answered by an ACK with a nonzero retcode,
\* the operation reports a failure to its caller instead of returning
\* normally, and stream_start leaves the stream in Idle
C27_FailureReported ==
    (/\ pc = "idle"
     /\ op.name \in {"channels_write", "stream_start", "stream_stop"}
     /\ AckFailed)
    => (exc # "" /\ (op.name = "stream_start" => ~stream_started))

\* C28: a STREAM frame whose payload is malformed (a truncated sample, a
\* channel id >= chmax) is dropped and the session continues: the
\* dispatcher of a started stream keeps running, so that later frames
\* are still decoded and delivered
C28_MalformedDropped ==
    (stream_started /\ ~disp_stop) => disp_thrd = "run"

\* the ids of a list are all channel ids
ValidIds(ids) == \A i \in 1 .. Len(ids) : ids[i] \in 0 .. (dev.chmax - 1)

\* C29: ch_divider with a divider d < 0 or d > 255 fails with an
\* argument error and leaves div_new and div_now of every channel as they
\* are; with 0 <= d <= 255 (and channel ids of the device) it succeeds and
\* sets div_new to d for exactly the named channels
C29_DividerRange ==
    [][nops' = nops + 1 =>
       \A ids \in IdLists, d \in DivArgs, wn \in BOOLEAN :
          ch_divider_ids(ids, d, wn) =>
              IF d < 0 \/ d > 255
              THEN /\ exc' = "ValueError"
                   /\ pc' = "idle"
                   /\ div_new' = div_new
                   /\ div_now' = div_now
              ELSE ValidIds(ids) =>
                       /\ exc' = ""
                       /\ div_new' = SetAt(div_new, Range(ids), d)]_vars

\* a divider of 255 was accepted for channel 1 alone and the call after
\* it, with a divider out of range, has failed
C29_Witness ==
    /\ op.name = "ch_divider"
    /\ exc = "ValueError"
    /\ pc = "idle"
    /\ div_new[2] = 255
    /\ div_new[1] # 255

\* C30: ch_enable, ch_disable and ch_divider called with a channel id
\* outside [0, chmax), alone or anywhere in a list, fail with an argument
\* error and leave en_new and div_new of every channel as they are
C30_IdRange ==
    [][nops' = nops + 1 =>
       \A ids \in IdLists, d \in DivArgs, wn \in BOOLEAN :
          (/\ ~ValidIds(ids)
           /\ \/ ch_enable_ids(ids, wn)
              \/ ch_disable_ids(ids, wn)
              \/ ch_divider_ids(ids, d, wn)) =>
              /\ exc' # ""
              /\ pc' = "idle"
              /\ en_new' = en_new
              /\ div_new' = div_new]_vars

\* the workers that have not ended
Alive == {w \in 1 .. Len(t_workers) : t_workers[w] # "done"}
StartCall == t_calls' = Append(t_calls, "start")

\* C31: thread_start on a runner that has a worker creates no second
\* one and changes nothing of the runner; over any sequence of
\* thread_start and thread_stop at most one worker is executing
C31_StartIdempotent ==
    [][/\ Cardinality(Alive') <= 1
       /\ (StartCall /\ t_thrd # 0) =>
              UNCHANGED <<t_thrd, t_stop, t_workers, t_log>>]_vars

\* thread_start was called twice in a row and the worker of the first
\* call, which has run the target, is the only worker
C31_Witness ==
    /\ Len(t_calls) >= 2
    /\ t_calls[1] = "start" /\ t_calls[2] = "start"
    /\ t_workers = <<"loop">>
    /\ EventsOf(t_log, 1) = <<"init", "target">>
    /\ t_thrd = 1

\* what a worker at position pos has run is init, then targets only,
\* then (once it has ended, and only then) final
HooksInOrder(ev, pos) ==
    /\ (pos = "init") = (ev = <<>>)
    /\ ev # <<>> => ev[1] = "init"
    /\ (pos = "done") = (Len(ev) >= 2 /\ ev[Len(ev)] = "final")
    /\ \A i \in 2 .. Len(ev) - 1 : ev[i] = "target"
    /\ (Len(ev) >= 2 /\ pos # "done") => ev[Len(ev)] = "target"

Dequeuing ==
    pc \in {"cmn_wait", "chi_wait", "drop", "drop_s", "cw_div_wait",
            "cw_en_wait", "ss_wait", "st_wait"}

\* C33: no thread holds the channels lock while it is blocked in a
\* dequeue on the control queue or the stream queue, channels_write
\* awaiting the ACK of the frame it has written included
C33_NoLockAcrossDequeue == Dequeuing => channels_lock = "free"

\* C34: channels_write is atomic with respect to the channel operations
\* of another caller thread: the snapshots it installs (which are what
\* its DIV and ENABLE frames carried) are one value that (en_new, div_new)
\* had at some time
C34_CommitAtomic ==
    pc = "idle" => <<en_now, div_now>> \in snaps \cup {<<en_new, div_new>>}

\* the caller inside _get_ack takes an ACK frame off the control queue
AckTake ==
    /\ pc \in {"cw_div_wait", "cw_en_wait", "ss_wait", "st_wait"}
    /\ q # <<>>
    /\ frame_is_ack(Head(q))
    /\ q' = Tail(q)
\* ACK frames in a sequence of frames
Acks(s) == Cardinality({i \in 1 .. Len(s) : frame_is_ack(s[i])})

\* C35: the ACK a request consumes as its reply is the one the device
\* emitted for that request.  The device answers the requests in their
\* order with one ACK each, so at the dequeue the request has been taken
\* by the device and its ACK is the only one on the way to the caller
C35_AckOfRequest ==
    [][AckTake => (tx = <<>> /\ Acks(rx) + Acks(q) = 1)]_vars

\* thread t holds the channels lock and the registry lock
HoldsBoth(t) == channels_lock = t /\ queue_lock = t

\* C36: no thread holds the channels lock and the registry lock at the
\* same time, and every thread that is about to take one of them gets it
\* in the end: the dispatcher in ch_is_enabled and before its puts, the
\* caller in channels_write and in stream_sub
C36_LocksGranted ==
    /\ [](~HoldsBoth("caller") /\ ~HoldsBoth("disp"))
    /\ (disp_pc = "iter") ~> (channels_lock = "disp")
    /\ (disp_pc = "put") ~> (queue_lock = "disp")
    /\ (pc = "cw_en") ~> (channels_lock = "caller")
    /\ (pc = "sub") ~> (queue_lock = "caller")

\* channels_write waits for its ACK with the channels lock held, the
\* dispatcher is inside its puts with the registry lock held
C36_Witness ==
    /\ pc = "cw_en_wait"
    /\ channels_lock = "caller"
    /\ disp_pc = "put_in"
    /\ queue_lock = "disp"

\* the number of times the queue que occurs in the registry
RegCount(que) ==
    Cardinality({ce \in {<<c, i>> : c \in 1 .. Len(sub_q), i \in 1 .. MaxRegs} :
                    ce[2] <= Len(sub_q[ce[1]]) /\ sub_q[ce[1]][ce[2]] = que})

\* C37: on a connected handler the four vectors en_now, en_new, div_now
\* and div_new have chmax entries each, the registry has chmax lists, and
\* every subscriber queue occurs in at most one list and there at most
\* once, after any sequence of ch_enable, ch_disable, ch_divider,
\* channels_default_cfg, channels_write, stream_sub and stream_unsub
C37_Shape ==
    (connected /\ dev.set) =>
        /\ Len(en_now) = dev.chmax
        /\ Len(en_new) = dev.chmax
        /\ Len(div_now) = dev.chmax
        /\ Len(div_new) = dev.chmax
        /\ Len(sub_q) = dev.chmax
        /\ \A c \in 1 .. Len(sub_q) : Len(sub_q[c]) <= MaxRegs
        /\ \A que \in 1 .. Len(subq) : RegCount(que) <= 1

\* two queues on one channel after a channel operation that was written
C37_Witness ==
    /\ connected
    /\ \E c \in 1 .. Len(sub_q) : Len(sub_q[c]) = 2
    /\ pc = "idle"
    /\ nops > 1
    /\ wlog # <<>>

\* the bytes start with a header that declares at least
\* hdr_len + foot_len bytes, all of them are there, and their CRC is zero
WholeFrame(data) ==
    /\ Len(data) >= hdr_len
    /\ LET flen == data[2] + 256 * data[3]
       IN  /\ flen >= hdr_len + foot_len
           /\ flen <= Len(data)
           /\ Crc16(SubSeq(data, 1, flen), 0) = 0

\* C38: frame_decode and the recv_handle of the device accept a byte
\* string only if its header declares a length of at least 6 and the
\* CRC-16 over exactly that many bytes is zero; with a declared length
\* below 6 nothing is returned or passed to a callback
C38_LengthChecked ==
    \A i \in 1 .. Len(dec_log) :
        LET e == dec_log[i]
        IN  /\ (e.op = "frame_decode" /\ ~e.ret.err) => WholeFrame(e.arg)
            /\ (e.op = "recv_handle" /\ e.ret.called) =>
                   WholeFrame(Slice(e.arg, hdr_find(e.arg), Len(e.arg)))

\* the entries of both threads' logs of stream_start that equal e
StartEvents(e) ==
    Count(IF op.name = "stream_start" THEN wlog ELSE <<>>, e)
        + Count(o_log, e)

\* C39: when several caller threads call stream_start while the stream is
\* idle, one of them performs the start: START(true) is written at most
\* once, and with it the overflow counter is reset at most once, at most
\* one dispatcher worker is started, and when the calls have returned the
\* stream is started and a dispatcher runs
C39_StartOnce ==
    /\ StartEvents(Wr(frame_start(TRUE))) <= 1
    /\ StartEvents(Ev("disp_start", NoFrame)) <= 1
    /\ (pc = "idle" /\ op.name = "stream_start" /\ o_pc = "done") =>
           /\ stream_started
           /\ disp_thrd = "run"

\* C40: for each STREAM frame the dispatcher has examined and each channel
\* c with subscribers, the batch it is about to deliver holds all of c's
\* samples of the frame or none of them, never some of them, also when a
\* channels_write of the caller changes en_now[c] while the frame is
\* dispatched
C40_WholeBatch ==
    (disp_thrd = "run" /\ disp_pc = "put") =>
        \A c \in 1 .. Len(sub_q) :
            sub_q[c] # <<>> =>
                samples[c] \in {<<>>, FrameSamples(c - 1)}

====
